---- MODULE Spec2Model ----
(***************************************************************************)
(* Federal multi-source crawl orchestrator (crawlers/benefits/             *)
(* federal_crawler.py on top of crawlers/shared/base_crawler.py): the      *)
(* failure ledger, its persistence, the per-group crawl loop and the       *)
(* per-target stage pipeline.                                              *)
(*                                                                         *)
(* Encoding of Python values                                               *)
(*   - a URL string is a record [scheme, host, port, path, query,          *)
(*     fragment]; the empty string is EmptyUrl.  path is the sequence of   *)
(*     its tokens, "/" being a token of its own: "/p/" is <<"/","p","/">>. *)
(*   - a reason is a tuple of strings: <<"fetch_failed">>,                 *)
(*     <<"dns_error","-2">> for "dns_error:-2"; None and "" are <<>>.      *)
(*   - a ledger record is [source, url, failCount, lastFailure, reason];   *)
(*     a key that is missing and a key with an empty value are both falsy  *)
(*     in Python and are both the empty value here.                        *)
(***************************************************************************)
EXTENDS Integers, Sequences, FiniteSets, TLC

\* ------------------------------------------------------------------ bounds
\* number of crawler processes (constructions) in one behaviour of Spec
MaxRuns == 2
\* SpecRecord: length of the ledger and of the lists of a _record_failed_urls call
MaxListLen == 2
\* SpecLoad: number of lines of the ledger file
MaxLines == 3

Range(s) == {s[i] : i \in 1..Len(s)}

\* ------------------------------------------------------------- URL strings
Url(scheme, host, port, path) ==
    [scheme |-> scheme, host |-> host, port |-> port, path |-> path,
     query |-> <<>>, fragment |-> ""]

EmptyUrl == Url("", "", "", <<>>)

\* str.lower() on the strings of the model
Lower(s) ==
    CASE s = "A.de" -> "a.de"
      [] s = "HTTPS" -> "https"
      [] s = "Datenschutz" -> "datenschutz"
      [] s = "Cookies" -> "cookies"
      [] s = "Cookie.de" -> "cookie.de"
      [] s = "Privacy-Policy" -> "privacy-policy"
      [] s = "A" -> "a"
      [] s = "C" -> "c"
      [] s = "X" -> "x"
      [] s = "de-LEICHT" -> "de-leicht"
      [] s = "SYSTEMFEHLER" -> "systemfehler"
      [] s = "Googlebot" -> "googlebot"
      [] s = "DE_Leicht" -> "de_leicht"
      [] OTHER -> s

\* urllib.parse.urlparse: the scheme is lowercased, the rest is split as is
urlparse(u) == [u EXCEPT !.scheme = Lower(u.scheme)]

\* parsed.netloc is empty
NoNetloc(p) == p.host = "" /\ p.port = ""

\* f"{parsed.scheme}://{parsed.netloc}"
OriginOf(p) == <<p.scheme, p.host, p.port>>

\* parsed.path in ("", "/")
RootPath(p) == p.path = <<>> \/ p.path = <<"/">>

tracking_params ==
    {"utm_source", "utm_medium", "utm_campaign", "utm_term", "utm_content",
     "fbclid", "gclid", "ref", "source", "mc_cid", "mc_eid"}

\* the query keys of the model, in the order sorted() gives them
SortedKeys == <<"b", "id", "ref", "utm_source">>

RECURSIVE QueryOfKeys(_, _)
\* parse_qs (blank values dropped, values grouped by key), the tracking
\* filter, sorted() by key and urlencode(doseq=True)
QueryOfKeys(q, keys) ==
    IF keys = <<>> THEN <<>>
    ELSE LET k == Head(keys)
             mine == SelectSeq(q, LAMBDA kv : kv[1] = k /\ kv[2] # "")
         IN (IF k \in tracking_params THEN <<>> ELSE mine)
                \o QueryOfKeys(q, Tail(keys))

normalize_url(url) ==
    LET parsed == urlparse(url)
        port == IF parsed.port = "80" \/ parsed.port = "443" THEN "" ELSE parsed.port
        path == IF parsed.path # <<"/">> /\ parsed.path # <<>>
                   /\ parsed.path[Len(parsed.path)] = "/"
                THEN SubSeq(parsed.path, 1, Len(parsed.path) - 1)
                ELSE parsed.path
    IN [scheme |-> parsed.scheme, host |-> Lower(parsed.host), port |-> port,
        path |-> path, query |-> QueryOfKeys(parsed.query, SortedKeys),
        fragment |-> ""]

EXCLUDED_LINK_KEYWORDS == {"datenschutz", "privacy", "impressum", "barriere", "cookie"}

\* `keyword in s` for the strings of the model
Occurs(keyword, s) ==
    CASE keyword = "datenschutz" -> s \in {"datenschutz", "datenschutzerklaerung"}
      [] keyword = "privacy" -> s \in {"privacy", "privacy-policy"}
      [] keyword = "impressum" -> s = "impressum"
      [] keyword = "barriere" -> s \in {"barriere", "barrierefreiheit"}
      [] keyword = "cookie" -> s \in {"cookie", "cookies", "cookie.de"}
      [] OTHER -> keyword = s

\* the parts of a URL string; no keyword contains one of the separators
\* between them
PartsOf(url) ==
    {url.scheme, url.host, url.port, url.fragment}
        \cup Range(url.path)
        \cup UNION {{url.query[i][1], url.query[i][2]} : i \in 1..Len(url.query)}

\* _should_skip_link without .lower()
_should_skip_link_CaseSensitive(url) ==
    \E keyword \in EXCLUDED_LINK_KEYWORDS : \E part \in PartsOf(url) :
        Occurs(keyword, part)

\* _should_skip_link("", url): a keyword occurs in the lowercased URL
_should_skip_link(url) ==
    \E keyword \in EXCLUDED_LINK_KEYWORDS : \E part \in PartsOf(url) :
        Occurs(keyword, Lower(part))

\* uuid.uuid5(NAMESPACE_URL, normalized): a function of the name alone
uuid5(name) == <<"uuid5", name>>

\* ------------------------------------------------------------ sequences

\* the first occurrences, in order, of the elements of s that are not in seen
DedupeFrom(s, seen) ==
    LET idx == [i \in 1..Len(s) |-> i]
        kept == SelectSeq(idx, LAMBDA i : /\ s[i] \notin seen
                                          /\ \A j \in 1..(i - 1) : s[j] # s[i])
    IN [k \in 1..Len(kept) |-> s[kept[k]]]

\* list(dict.fromkeys(s))
Dedupe(s) == DedupeFrom(s, {})

\* all sequences over S of length at most n
SeqsUpTo(S, n) == UNION {[1..k -> S] : k \in 0..n}

\* ------------------------------------------------------------ the ledger
Record(source, url, failCount, lastFailure, reason) ==
    [source |-> source, url |-> url, failCount |-> failCount,
     lastFailure |-> lastFailure, reason |-> reason]

\* the keys of a ledger, in ledger order
KeysOf(recs) == [i \in 1..Len(recs) |-> <<recs[i].source, recs[i].url>>]

\* index of the first record of (source, url), 0 when there is none:
\* next((record for record in ... if source and url match), None)
RECURSIVE FirstIndexFrom(_, _, _, _)
FirstIndexFrom(recs, source, url, i) ==
    IF i > Len(recs) THEN 0
    ELSE IF recs[i].source = source /\ recs[i].url = url THEN i
    ELSE FirstIndexFrom(recs, source, url, i + 1)

FirstIndex(recs, source, url) == FirstIndexFrom(recs, source, url, 1)

\* RemoveRecovered with the test on the source left out
RemoveRecovered_AnySource(recs, source, recovered) ==
    IF recovered # <<>>
    THEN SelectSeq(recs, LAMBDA r : r.url \notin Range(recovered))
    ELSE recs

\* the recovered branch of _record_failed_urls
RemoveRecovered(recs, source, recovered) ==
    IF recovered # <<>>
    THEN SelectSeq(recs, LAMBDA r : ~(r.source = source /\ r.url \in Range(recovered)))
    ELSE recs

\* RecordFailure without the lookup of the existing record
RecordFailure_NoLookup(recs, source, url, reason, now) ==
    IF url = EmptyUrl THEN recs
    ELSE Append(recs, Record(source, url, 1, now, reason))

\* RecordFailure that leaves the reason of an existing record as it was
RecordFailure_KeepReason(recs, source, url, reason, now) ==
    IF url = EmptyUrl THEN recs
    ELSE LET i == FirstIndex(recs, source, url)
         IN IF i # 0
            THEN [recs EXCEPT ![i] =
                     [@ EXCEPT !.lastFailure = now, !.failCount = @ + 1]]
            ELSE Append(recs, Record(source, url, 1, now, reason))

\* one iteration of the loop over failures in _record_failed_urls
RecordFailure(recs, source, url, reason, now) ==
    IF url = EmptyUrl THEN recs
    ELSE LET i == FirstIndex(recs, source, url)
         IN IF i # 0
            THEN [recs EXCEPT ![i] =
                     [@ EXCEPT !.lastFailure = now,
                               !.failCount = @ + 1,
                               !.reason = IF reason # <<>> THEN reason ELSE @]]
            ELSE Append(recs, Record(source, url, 1, now, reason))

RECURSIVE RecordFailures(_, _, _, _)
RecordFailures(recs, source, failures, now) ==
    IF failures = <<>> THEN recs
    ELSE RecordFailures(
             RecordFailure(recs, source, Head(failures)[1], Head(failures)[2], now),
             source, Tail(failures), now)

\* _record_failed_urls with the two branches in the other order
_record_failed_urls_RecoveredLast(recs, source, failures, recovered, now) ==
    RemoveRecovered(RecordFailures(recs, source, failures, now), source, recovered)

\* _record_failed_urls without its final _persist_failed_url_records
_record_failed_urls(recs, source, failures, recovered, now) ==
    RecordFailures(RemoveRecovered(recs, source, recovered), source, failures, now)

\* ------------------------------------------------------- the ledger file
\* A line of failed_urls.jsonl is one of
\*   [kind |-> "object", rec |-> r]   a JSON object (r's falsy fields: see above)
\*   [kind |-> "array"]               valid JSON that is not an object
\*   [kind |-> "notjson"]             text that json.loads rejects (a torn line)
\*   [kind |-> "blank"]               whitespace only
\*   [kind |-> "badutf8"]             bytes that are not valid UTF-8
ObjectLine(r) == [kind |-> "object", rec |-> r]
OtherLine(kind) == [kind |-> kind, rec |-> Record("", EmptyUrl, 0, 0, <<>>)]

\* json.dumps(record) + "\n" for every record, in order
LinesOf(recs) == [i \in 1..Len(recs) |-> ObjectLine(recs[i])]

\* the body of the loop over the lines in _load_failed_url_records
RECURSIVE LoadLines(_)
LoadLines(lines) ==
    IF lines = <<>> THEN <<>>
    ELSE LET line == Head(lines)
             rest == LoadLines(Tail(lines))
         IN IF line.kind = "blank" THEN rest
            ELSE IF line.kind = "notjson" THEN rest
            ELSE IF line.kind = "object" /\ line.rec.url # EmptyUrl /\ line.rec.source # ""
                 THEN <<line.rec>> \o rest
            ELSE rest

\* _load_failed_url_records: the file is opened with encoding="utf-8" (strict),
\* so reading it raises UnicodeDecodeError on bytes that are not UTF-8; the
\* function catches json.JSONDecodeError per line and OSError for the file.
_load_failed_url_records(lines) ==
    IF \E i \in 1..Len(lines) : lines[i].kind = "badutf8"
    THEN [raised |-> TRUE, records |-> <<>>]
    ELSE [raised |-> FALSE, records |-> LoadLines(lines)]

\* _load_failed_urls that returns no retry URL
_load_failed_urls_NoRetry(recs, seed_name) == <<>>

\* _load_failed_urls
_load_failed_urls(recs, seed_name) ==
    IF seed_name = "" THEN <<>>
    ELSE LET mine == SelectSeq(recs, LAMBDA r : r.source = seed_name)
         IN [i \in 1..Len(mine) |-> mine[i].url]

\* ------------------------------------------------- reachability safeguards
Verdict(ok, reason) == [ok |-> ok, reason |-> reason]

\* what socket.getaddrinfo does for a host: it returns, raises socket.gaierror,
\* raises another OSError, or raises an error the code does not catch
\* (UnicodeError for a label that is too long)
DnsAnswers ==
    {[kind |-> "ok", errno |-> ""],
     [kind |-> "gaierror", errno |-> "-2"],
     [kind |-> "gaierror", errno |-> "None"],
     [kind |-> "oserror", errno |-> "101"],
     [kind |-> "unicodeerror", errno |-> ""]}

\* f"{tag}:{code}" if code is not None else tag
Tagged(tag, code) == IF code # "None" THEN <<tag, code>> ELSE <<tag>>

\* _is_host_reachable that takes a host for reachable when getaddrinfo fails
_is_host_reachable_Optimistic(host, cache, dns) ==
    IF host = ""
    THEN [raised |-> FALSE, verdict |-> Verdict(FALSE, <<"invalid_host">>), cache |-> cache]
    ELSE IF host \in DOMAIN cache
    THEN [raised |-> FALSE, verdict |-> cache[host], cache |-> cache]
    ELSE [raised |-> dns.kind = "unicodeerror", verdict |-> Verdict(TRUE, <<>>),
          cache |-> cache @@ (host :> Verdict(TRUE, <<>>))]

\* _is_host_reachable: [raised, verdict, cache]
_is_host_reachable(host, cache, dns) ==
    IF host = ""
    THEN [raised |-> FALSE, verdict |-> Verdict(FALSE, <<"invalid_host">>), cache |-> cache]
    ELSE IF host \in DOMAIN cache
    THEN [raised |-> FALSE, verdict |-> cache[host], cache |-> cache]
    ELSE IF dns.kind = "unicodeerror"
    THEN [raised |-> TRUE, verdict |-> Verdict(FALSE, <<>>), cache |-> cache]
    ELSE LET result ==
                 CASE dns.kind = "ok" -> Verdict(TRUE, <<>>)
                   [] dns.kind = "gaierror" -> Verdict(FALSE, Tagged("dns_error", dns.errno))
                   [] OTHER -> Verdict(FALSE, Tagged("network_error", dns.errno))
         IN [raised |-> FALSE, verdict |-> result, cache |-> cache @@ (host :> result)]

\* what session.head does for an origin root: a response with a status, or a
\* requests.RequestException of some class
HeadAnswers ==
    {[kind |-> "status", status |-> 200, cls |-> ""],
     [kind |-> "status", status |-> 405, cls |-> ""],
     [kind |-> "status", status |-> 500, cls |-> ""],
     [kind |-> "status", status |-> 503, cls |-> ""],
     [kind |-> "error", status |-> 0, cls |-> "ConnectionError"]}

\* str(response.status_code)
StatusStr(code) ==
    CASE code = 200 -> "200" [] code = 405 -> "405"
      [] code = 500 -> "500" [] code = 503 -> "503"
      [] code = 301 -> "301" [] code = 404 -> "404"
      [] code = 499 -> "499" [] code = 599 -> "599" [] OTHER -> "0"

\* _probe_url_head that takes a client error status for unreachable
_probe_url_head_ClientErrors(url, cache, head) ==
    LET parsed == urlparse(url)
        root == OriginOf(parsed)
    IN IF parsed.scheme \notin {"http", "https"} \/ NoNetloc(parsed)
       THEN [verdict |-> Verdict(FALSE, <<"invalid_url">>), cache |-> cache]
       ELSE IF root \in DOMAIN cache
       THEN [verdict |-> cache[root], cache |-> cache]
       ELSE LET result ==
                    IF head.kind = "error"
                    THEN Verdict(FALSE, <<"head_error", head.cls>>)
                    ELSE IF head.status >= 400
                    THEN Verdict(FALSE, <<"head_status", StatusStr(head.status)>>)
                    ELSE Verdict(TRUE, <<>>)
            IN [verdict |-> result, cache |-> cache @@ (root :> result)]

\* _probe_url_head that does not store the verdict of a transport error
_probe_url_head_NoErrorCache(url, cache, head) ==
    LET parsed == urlparse(url)
        root == OriginOf(parsed)
    IN IF parsed.scheme \notin {"http", "https"} \/ NoNetloc(parsed)
       THEN [verdict |-> Verdict(FALSE, <<"invalid_url">>), cache |-> cache]
       ELSE IF root \in DOMAIN cache
       THEN [verdict |-> cache[root], cache |-> cache]
       ELSE IF head.kind = "error"
       THEN [verdict |-> Verdict(FALSE, <<"head_error", head.cls>>), cache |-> cache]
       ELSE LET result ==
                    IF head.status = 405 THEN Verdict(TRUE, <<>>)
                    ELSE IF head.status >= 500
                    THEN Verdict(FALSE, <<"head_status", StatusStr(head.status)>>)
                    ELSE Verdict(TRUE, <<>>)
            IN [verdict |-> result, cache |-> cache @@ (root :> result)]

\* _probe_url_head: [verdict, cache]
_probe_url_head(url, cache, head) ==
    LET parsed == urlparse(url)
        root == OriginOf(parsed)
    IN IF parsed.scheme \notin {"http", "https"} \/ NoNetloc(parsed)
       THEN [verdict |-> Verdict(FALSE, <<"invalid_url">>), cache |-> cache]
       ELSE IF root \in DOMAIN cache
       THEN [verdict |-> cache[root], cache |-> cache]
       ELSE LET result ==
                    IF head.kind = "error"
                    THEN Verdict(FALSE, <<"head_error", head.cls>>)
                    ELSE IF head.status = 405 THEN Verdict(TRUE, <<>>)
                    ELSE IF head.status >= 500
                    THEN Verdict(FALSE, <<"head_status", StatusStr(head.status)>>)
                    ELSE Verdict(TRUE, <<>>)
            IN [verdict |-> result, cache |-> cache @@ (root :> result)]

\* --------------------------------------------------------- crawl execution
\* what fetch_page returns for a URL: None, a page whose main content is
\* empty, or a page with content
HtmlAnswers == {"none", "empty_page", "page"}

\* the stage at which an error the code does not catch is raised ("" none)
ExcAnswers == {"", "dns", "head", "fetch", "extract"}

NoEntry == [id |-> <<>>, url |-> EmptyUrl, seed |-> ""]

\* Entry with an id made of the URL and the seed group
Entry_IdPerSeed(normalized, seed_name) ==
    [id |-> uuid5(<<normalized, seed_name>>), url |-> normalized, seed |-> seed_name]

\* the fields of the entry dict that identify it
Entry(normalized, seed_name) ==
    [id |-> uuid5(normalized), url |-> normalized, seed |-> seed_name]

Outcome(entry, reason, stages, raised, hosts, heads) ==
    [entry |-> entry, reason |-> reason, stages |-> stages, raised |-> raised,
     hosts |-> hosts, heads |-> heads]

\* fetch_page(url): the page or None; w.exc = "fetch" is an uncaught error
fetch_page(url, w) == IF w.html = "none" THEN "" ELSE w.html

\* _extract_main_content(soup)
_extract_main_content(html) ==
    CASE html = "page" -> "text"
      [] html = "page2" -> "text2"
      [] OTHER -> ""

\* BaseCrawler.generate_provenance(source_url) at time now, for the crawler
\* named "federal"
generate_provenance(source_url, now) ==
    [source |-> source_url, crawler |-> <<"federal">>, crawledAt |-> now,
     crawlId |-> <<"federal", now>>]

\* the entry dict that _crawl_url returns for a page with content: entry
\* holds its id and url; the seed group gives the crawler id of the provenance
EntryDict(entry, url, seed_name, html, now) ==
    [id |-> entry.id, url |-> entry.url,
     content |-> _extract_main_content(html), rawHtml |-> html,
     firstSeen |-> now, lastSeen |-> now,
     provenance |-> [generate_provenance(url, now) EXCEPT
                        !.crawler = <<"federal_", Lower(seed_name)>>]]

\* _crawl_url(url, seed_group) against the world's answers w and the two
\* caches; stages lists the stages entered, in order
_crawl_url(url, seed_name, hosts, heads, w) ==
    LET parsed == urlparse(url) IN
    IF parsed.scheme \notin {"http", "https"} \/ NoNetloc(parsed)
    THEN Outcome(NoEntry, <<"invalid_url">>, <<"validate">>, FALSE, hosts, heads)
    ELSE
    LET hr == _is_host_reachable(Lower(parsed.host), hosts,
                                 IF w.exc = "dns"
                                 THEN [kind |-> "unicodeerror", errno |-> ""]
                                 ELSE w.dns)
        s2 == <<"validate", "dns">>
    IN
    IF hr.raised THEN Outcome(NoEntry, <<>>, s2, TRUE, hosts, heads)
    ELSE IF ~hr.verdict.ok
    THEN Outcome(NoEntry,
                 IF hr.verdict.reason # <<>> THEN hr.verdict.reason
                 ELSE <<"host_unreachable">>,
                 s2, FALSE, hr.cache, heads)
    ELSE
    LET s3 == Append(s2, "head")
        hp == _probe_url_head(url, heads, w.head)
    IN
    IF w.exc = "head" /\ OriginOf(parsed) \notin DOMAIN heads
    THEN Outcome(NoEntry, <<>>, s3, TRUE, hr.cache, heads)
    ELSE IF ~hp.verdict.ok
    THEN Outcome(NoEntry,
                 IF hp.verdict.reason # <<>> THEN hp.verdict.reason
                 ELSE <<"head_failed">>,
                 s3, FALSE, hr.cache, hp.cache)
    ELSE
    LET s4 == Append(s3, "fetch")
        html == fetch_page(url, w)
    IN
    IF w.exc = "fetch" THEN Outcome(NoEntry, <<>>, s4, TRUE, hr.cache, hp.cache)
    ELSE IF html = ""
    THEN Outcome(NoEntry, <<"fetch_failed">>, s4, FALSE, hr.cache, hp.cache)
    ELSE
    LET s5 == Append(s4, "extract")
        normalized == normalize_url(url)
        content == _extract_main_content(html)
    IN
    IF w.exc = "extract" THEN Outcome(NoEntry, <<>>, s5, TRUE, hr.cache, hp.cache)
    ELSE IF content = ""
    THEN Outcome(NoEntry, <<"content_empty">>, s5, FALSE, hr.cache, hp.cache)
    ELSE Outcome(Entry(normalized, seed_name), <<>>, s5, FALSE, hr.cache, hp.cache)

\* ------------------------------------------------------- target collection
\* seed_group.get("name", default)
NameOr(seed_group, default) == IF seed_group.has_name THEN seed_group.name ELSE default

\* the loop over derived_allowed + derived_sitemap in _collect_crawl_targets:
\* the origins for which a non-root path was derived
SpecificOrigins(derived) ==
    {OriginOf(urlparse(derived[i])) :
        i \in {j \in 1..Len(derived) :
                 LET parsed == urlparse(derived[j])
                 IN parsed.scheme # "" /\ ~NoNetloc(parsed) /\ ~RootPath(parsed)}}

\* the specificity test that asks for a derived path of any origin
DroppedAsBareOrigin_AnyOrigin(normalized, specific) ==
    LET parsed == urlparse(normalized)
    IN /\ parsed.scheme # "" /\ ~NoNetloc(parsed)
       /\ RootPath(parsed)
       /\ specific # {}

\* the specificity test on one normalized candidate
DroppedAsBareOrigin(normalized, specific) ==
    LET parsed == urlparse(normalized)
    IN /\ parsed.scheme # "" /\ ~NoNetloc(parsed)
       /\ RootPath(parsed)
       /\ OriginOf(parsed) \in specific

\* FilterTargets without `if normalized in seen: continue`
FilterTargets_NoSeen(combined, seen, specific) ==
    LET normalized == [i \in 1..Len(combined) |-> normalize_url(combined[i])]
    IN SelectSeq(normalized, LAMBDA u : /\ ~DroppedAsBareOrigin(u, specific)
                                        /\ ~_should_skip_link(u))

\* the loop over combined in _collect_crawl_targets: a URL is appended when
\* its normalized form is not in seen (every normalized form enters seen,
\* appended or not) and passes the two filters
FilterTargets(combined, seen, specific) ==
    LET normalized == [i \in 1..Len(combined) |-> normalize_url(combined[i])]
        idx == [i \in 1..Len(combined) |-> i]
        kept == SelectSeq(idx, LAMBDA i :
                    /\ normalized[i] \notin seen
                    /\ \A j \in 1..(i - 1) : normalized[j] # normalized[i]
                    /\ ~DroppedAsBareOrigin(normalized[i], specific)
                    /\ ~_should_skip_link(normalized[i]))
    IN [k \in 1..Len(kept) |-> normalized[kept[k]]]

\* _collect_crawl_targets, given what _derive_allowed_urls and
\* _derive_sitemap_urls returned
_collect_crawl_targets(seed_group, derived_allowed, derived_sitemap, recs) ==
    LET retry_targets == _load_failed_urls(recs, NameOr(seed_group, ""))
        combined == Dedupe(seed_group.start_urls \o derived_allowed
                               \o derived_sitemap \o retry_targets)
    IN FilterTargets(combined, {}, SpecificOrigins(derived_allowed \o derived_sitemap))

\* ------------------------------------------------------- target derivation
MAX_ALLOWED_PATHS == 25
MAX_SITEMAP_URLS == 500
MAX_SITEMAP_DEPTH == 2

Min(a, b) == IF a <= b THEN a ELSE b

\* Take that takes everything
Take_All(s, n) == s

\* the first n elements of s
Take(s, n) == SubSeq(s, 1, Min(n, Len(s)))

\* a loop that appends s[i] and adds it to seen unless it is in seen: the
\* first occurrences, in order, of the elements that are not in seen
FirstNew(s, seen) ==
    LET idx == [i \in 1..Len(s) |-> i]
        kept == SelectSeq(idx, LAMBDA i : /\ s[i] \notin seen
                                          /\ \A j \in 1..(i - 1) : s[j] # s[i])
    IN [k \in 1..Len(kept) |-> s[kept[k]]]

\* what _get_robots_metadata returns for an origin
Metadata(allowed_paths, sitemaps) == [allowed_paths |-> allowed_paths, sitemaps |-> sitemaps]

\* _get_robots_metadata(origin) in a world of robots.txt files, robots[origin]
\* holding the Allow paths that apply and the Sitemap references, each joined
\* to the origin: _parse_robots_file normalizes them; a robots.txt that
\* cannot be retrieved gives none, and no sitemap gives /sitemap.xml
MetadataOf(robots, origin) ==
    LET found == IF origin \in DOMAIN robots THEN robots[origin] ELSE Metadata(<<>>, <<>>)
        allowed_paths == [i \in 1..Len(found.allowed_paths) |->
                             normalize_url(found.allowed_paths[i])]
        sitemaps == IF found.sitemaps = <<>>
                    THEN <<normalize_url(Url(origin[1], origin[2], origin[3],
                                             <<"/", "sitemap.xml">>))>>
                    ELSE [i \in 1..Len(found.sitemaps) |-> normalize_url(found.sitemaps[i])]
    IN Metadata(Dedupe(allowed_paths), Dedupe(sitemaps))

RECURSIVE AllowedLoop(_, _, _)
\* the loop over start_urls in _derive_allowed_urls, allowed being the list so far
AllowedLoop(start_urls, allowed, robots) ==
    IF start_urls = <<>> THEN allowed
    ELSE LET parsed == urlparse(Head(start_urls))
         IN IF parsed.scheme = "" \/ NoNetloc(parsed)
            THEN AllowedLoop(Tail(start_urls), allowed, robots)
            ELSE LET metadata == MetadataOf(robots, OriginOf(parsed))
                     new == FirstNew(SelectSeq(metadata.allowed_paths,
                                               LAMBDA u : ~_should_skip_link(u)),
                                     Range(allowed))
                     grown == allowed \o Take(new, MAX_ALLOWED_PATHS - Len(allowed))
                 IN IF new # <<>> /\ Len(grown) >= MAX_ALLOWED_PATHS
                    THEN grown
                    ELSE AllowedLoop(Tail(start_urls), grown, robots)

\* _derive_allowed_urls
_derive_allowed_urls(start_urls, robots) == AllowedLoop(start_urls, <<>>, robots)

\* str.endswith on the host names of the model
SuffixesOf(host) ==
    CASE host = "a.de" -> {"a.de", ".de", "de"}
      [] host = "b.de" -> {"b.de", ".de", "de"}
      [] host = "nota.de" -> {"nota.de", "a.de", ".de", "de"}
      [] host = "www.a.de" -> {"www.a.de", ".a.de", "a.de", ".de", "de"}
      [] OTHER -> {host}

\* _is_in_allowed_domains
_is_in_allowed_domains(url, allowed_domains) ==
    IF allowed_domains = <<>> THEN TRUE
    ELSE LET parsed == urlparse(url)
         IN \E i \in 1..Len(allowed_domains) :
               /\ allowed_domains[i] # ""
               /\ parsed.port = ""
               /\ allowed_domains[i] \in SuffixesOf(Lower(parsed.host))

\* A sitemap document as the server returns it for a URL:
\*   kind  "index" (sitemapindex), "urlset", "other" (another root element),
\*         "badxml" (ET.ParseError), "error" (requests.RequestException)
\*   locs  the texts of its <loc> elements, in document order
SitemapDoc(kind, locs) == [kind |-> kind, locs |-> locs]

\* the document behind a sitemap URL
DocAt(web, url) == IF url \in DOMAIN web THEN web[url] ELSE SitemapDoc("error", <<>>)

\* child_loc.endswith(".gz")
EndsWithGz(url) == url.path # <<>> /\ url.path[Len(url.path)] = "sitemap.xml.gz"

\* the state that _fetch_sitemap_urls threads through its recursion:
\* visited_sitemaps, and as history the requests sent, each with its depth,
\* with have, the length of the group's sitemap_urls list at that moment, and
\* with local, the length of the urls list of the index that names the
\* document (0 for a sitemap named by robots.txt)
Walk(visited, fetched, have, local) ==
    [visited |-> visited, fetched |-> fetched, have |-> have, local |-> local]

\* `if depth > self.MAX_SITEMAP_DEPTH` that never holds
TooDeep_Never(depth) == FALSE

\* `if depth > self.MAX_SITEMAP_DEPTH`
TooDeep(depth) == depth > MAX_SITEMAP_DEPTH

\* `if normalized in visited_sitemaps` that never holds
AlreadyVisited_Never(normalized, visited) == FALSE

\* `if normalized in visited_sitemaps`
AlreadyVisited(normalized, visited) == normalized \in visited

RECURSIVE _fetch_sitemap_urls(_, _, _, _, _)
RECURSIVE IndexLoop(_, _, _, _, _, _)

\* the loop over the <sitemap> children that ends at a child that cannot be
\* fetched or parsed
IndexLoop_EndsAtFailure(locs, urls, allowed_domains, st, depth, web) ==
    IF locs = <<>> \/ Len(urls) >= MAX_SITEMAP_URLS
    THEN [urls |-> urls, st |-> st]
    ELSE LET child_loc == Head(locs)
         IN IF child_loc = EmptyUrl \/ EndsWithGz(child_loc)
            THEN IndexLoop(Tail(locs), urls, allowed_domains, st, depth, web)
            ELSE IF ~_is_in_allowed_domains(child_loc, allowed_domains)
            THEN IndexLoop(Tail(locs), urls, allowed_domains, st, depth, web)
            ELSE LET nested == _fetch_sitemap_urls(child_loc, allowed_domains,
                                                   [st EXCEPT !.local = Len(urls)],
                                                   depth + 1, web)
                 IN IF DocAt(web, child_loc).kind \in {"error", "badxml"}
                    THEN [urls |-> urls, st |-> nested.st]
                    ELSE IndexLoop(Tail(locs),
                                   urls \o Take(nested.urls, MAX_SITEMAP_URLS - Len(urls)),
                                   allowed_domains, nested.st, depth, web)

\* the loop over the <sitemap> children of a sitemapindex
IndexLoop(locs, urls, allowed_domains, st, depth, web) ==
    IF locs = <<>> \/ Len(urls) >= MAX_SITEMAP_URLS
    THEN [urls |-> urls, st |-> st]
    ELSE LET child_loc == Head(locs)
         IN IF child_loc = EmptyUrl \/ EndsWithGz(child_loc)
            THEN IndexLoop(Tail(locs), urls, allowed_domains, st, depth, web)
            ELSE IF ~_is_in_allowed_domains(child_loc, allowed_domains)
            THEN IndexLoop(Tail(locs), urls, allowed_domains, st, depth, web)
            ELSE LET nested == _fetch_sitemap_urls(child_loc, allowed_domains,
                                                   [st EXCEPT !.local = Len(urls)],
                                                   depth + 1, web)
                 IN IndexLoop(Tail(locs),
                              urls \o Take(nested.urls, MAX_SITEMAP_URLS - Len(urls)),
                              allowed_domains, nested.st, depth, web)

\* _fetch_sitemap_urls(sitemap_url, allowed_domains, visited_sitemaps, depth)
_fetch_sitemap_urls(sitemap_url, allowed_domains, st, depth, web) ==
    IF TooDeep(depth) THEN [urls |-> <<>>, st |-> st]
    ELSE LET normalized == normalize_url(sitemap_url) IN
    IF AlreadyVisited(normalized, st.visited) THEN [urls |-> <<>>, st |-> st]
    ELSE LET doc == DocAt(web, sitemap_url)
             st1 == Walk(st.visited \cup {normalized},
                         Append(st.fetched, [url |-> sitemap_url, depth |-> depth,
                                             have |-> st.have, local |-> st.local]),
                         st.have, st.local)
         IN CASE doc.kind \in {"error", "badxml"} -> [urls |-> <<>>, st |-> st1]
              [] doc.kind = "index" ->
                    IndexLoop(doc.locs, <<>>, allowed_domains, st1, depth, web)
              [] OTHER ->
                    [urls |-> Take(SelectSeq(doc.locs,
                                       LAMBDA u : u # EmptyUrl
                                                  /\ _is_in_allowed_domains(u, allowed_domains)),
                                   MAX_SITEMAP_URLS),
                     st |-> st1]

RECURSIVE SitemapsLoop(_, _, _, _, _)
\* the loop over metadata["sitemaps"] in _derive_sitemap_urls
SitemapsLoop(sitemaps, sitemap_urls, allowed_domains, st, web) ==
    IF sitemaps = <<>> \/ Len(sitemap_urls) >= MAX_SITEMAP_URLS
    THEN [urls |-> sitemap_urls, st |-> st]
    ELSE LET collected == _fetch_sitemap_urls(Head(sitemaps), allowed_domains,
                                              [st EXCEPT !.have = Len(sitemap_urls), !.local = 0],
                                              0, web)
             normalized == [i \in 1..Len(collected.urls) |-> normalize_url(collected.urls[i])]
             new == FirstNew(SelectSeq(normalized,
                                       LAMBDA u : /\ ~_should_skip_link(u)
                                                  /\ _is_in_allowed_domains(u, allowed_domains)),
                             Range(sitemap_urls))
         IN SitemapsLoop(Tail(sitemaps),
                         sitemap_urls \o Take(new, MAX_SITEMAP_URLS - Len(sitemap_urls)),
                         allowed_domains, collected.st, web)

RECURSIVE StartUrlsLoop(_, _, _, _, _, _)
\* the loop over start_urls in _derive_sitemap_urls
StartUrlsLoop(start_urls, sitemap_urls, allowed_domains, st, robots, web) ==
    IF start_urls = <<>> THEN [urls |-> sitemap_urls, st |-> st]
    ELSE LET parsed == urlparse(Head(start_urls))
         IN IF parsed.scheme = "" \/ NoNetloc(parsed)
            THEN StartUrlsLoop(Tail(start_urls), sitemap_urls, allowed_domains, st,
                               robots, web)
            ELSE LET metadata == MetadataOf(robots, OriginOf(parsed))
                     done == SitemapsLoop(metadata.sitemaps, sitemap_urls,
                                          allowed_domains, st, web)
                 IN IF Len(done.urls) >= MAX_SITEMAP_URLS THEN done
                    ELSE StartUrlsLoop(Tail(start_urls), done.urls, allowed_domains,
                                       done.st, robots, web)

\* _derive_sitemap_urls: [urls, st], st.fetched being the sitemap requests sent
_derive_sitemap_urls(start_urls, allowed_domains, robots, web) ==
    StartUrlsLoop(start_urls, <<>>,
                  [i \in 1..Len(allowed_domains) |-> Lower(allowed_domains[i])],
                  Walk({}, <<>>, 0, 0), robots, web)

\* ------------------------------------------------------------ the registry
uRoot == Url("https", "a.de", "", <<"/">>)
uP == Url("https", "a.de", "", <<"/", "p">>)
uKw == Url("https", "a.de", "", <<"/", "datenschutz">>)
uFtp == Url("ftp", "a.de", "", <<"/", "f">>)
uPss == Url("https", "a.de", "", <<"/", "p", "/", "/">>)
uB == Url("https", "b.de", "", <<"/", "x">>)
uB2 == Url("https", "b.de", "", <<"/", "y">>)

\* A seed group of data/_sources/federal_de.json.  allowed_web and sitemap_web
\* are not configuration: they are the lists that the origin's robots.txt and
\* sitemaps can make _derive_allowed_urls and _derive_sitemap_urls return.
SeedGroup(has_name, name, start_urls, allowed_web, sitemap_web) ==
    [has_name |-> has_name, name |-> name, start_urls |-> start_urls,
     allowed_web |-> allowed_web, sitemap_web |-> sitemap_web]

\* the registry of Spec: a named group whose robots.txt may list a page (from
\* `Allow: /p///`, of which one normalization leaves two slashes), a
\* group whose only start URL is a privacy page, and a group without a name
\* on the same origin whose sitemap may list the page
RunGroups ==
    << SeedGroup(TRUE, "A", <<uRoot>>, {<<>>, <<uPss>>}, {<<>>}),
       SeedGroup(TRUE, "C", <<uKw>>, {<<>>}, {<<>>}),
       SeedGroup(FALSE, "", <<uRoot>>, {<<>>}, {<<>>, <<uP>>}) >>

\* the registry of SpecStages: a start URL that is no http(s) URL, two URLs of
\* one host (the first is dropped when robots.txt lists the second), and a group without a name on a second host
StageGroups ==
    << SeedGroup(TRUE, "A", <<uFtp, uRoot, uP>>, {<<>>, <<uP>>}, {<<>>}),
       SeedGroup(FALSE, "", <<uB>>, {<<>>}, {<<>>, <<uB2>>, <<uP>>}),
       SeedGroup(TRUE, "C", <<uKw>>, {<<>>}, {<<>>}) >>

\* data/_sources/federal_de.json: the file may be missing; seed_groups is
\* registry.get("seed_groups", [])
Registry(exists, groups) == [exists |-> exists, seed_groups |-> groups]

\* __init__ that accepts a source name no seed group has
SelectSeedGroups_NoCheck(registry, source_name) ==
    IF ~registry.exists THEN [raised |-> TRUE, groups |-> <<>>]
    ELSE [raised |-> FALSE,
          groups |-> IF source_name # ""
                     THEN SelectSeq(registry.seed_groups,
                                    LAMBDA seed : Lower(NameOr(seed, "")) = Lower(source_name))
                     ELSE registry.seed_groups]

\* __init__ from the opening of the registry file on: [raised, groups].
\* source_name None and "" are both falsy.
SelectSeedGroups(registry, source_name) ==
    IF ~registry.exists THEN [raised |-> TRUE, groups |-> <<>>]
    ELSE LET filtered == SelectSeq(registry.seed_groups,
                                   LAMBDA seed : Lower(NameOr(seed, "")) = Lower(source_name))
         IN IF source_name # ""
            THEN (IF filtered = <<>> THEN [raised |-> TRUE, groups |-> <<>>]
                  ELSE [raised |-> FALSE, groups |-> filtered])
            ELSE (IF registry.seed_groups = <<>> THEN [raised |-> TRUE, groups |-> <<>>]
                  ELSE [raised |-> FALSE, groups |-> registry.seed_groups])

\* ---------------------------------------------------------------- state
VARIABLES
    seed_groups,  \* self.seed_groups
    pc,           \* where the process is: boot, crawl, targets, persist_open,
                  \* persist_write, return, done, dead
    cause,        \* why the process is dead: "", crash, raised, load
    run,          \* number of crawler processes constructed so far
    clock,        \* the wall clock, read by datetime.now(): it advances from
                  \* one process to the next and from one group to the next
    file,         \* the lines of benefits/failed_urls.jsonl
    records,      \* self._failed_url_records
    hosts,        \* self._host_resolution_cache
    heads,        \* self._head_probe_cache
    gi,           \* index of the seed group crawl() is at
    targets,      \* crawl_targets of the current group
    ti,           \* index of the next target
    entries,      \* entries of the current group
    failures,     \* failures of the current group
    recovered,    \* recovered of the current group
    all_entries,  \* all_entries of crawl()
    pos,          \* number of records _persist_failed_url_records has written
    snap,         \* history: the ledger when the current group started
    derived,      \* history: derived_allowed + derived_sitemap of the group
    call,         \* history: the last _record_failed_urls call
    log,          \* history: url, stages, reason of the group's targets
    resolved,     \* history: what getaddrinfo did for each host it was called for
    results,      \* history: per group of this run, raised (and the lists
                  \* that were lost with it) or its entries
    committed,    \* history: the ledger when the last group returned
    prevFile,     \* history: the file before the current rewrite began
    net,          \* history: the network operations this process has issued
    config        \* history: the registry file and source_name given to __init__

vars == <<seed_groups, pc, cause, run, clock, file, records, hosts, heads, gi, targets, ti,
          entries, failures, recovered, all_entries, pos, snap, derived, call,
          log, resolved, results, committed, prevFile, net, config>>

\* no network operation yet: getaddrinfo calls per host, HEAD requests per
\* origin root, and which other kinds of request were made
NoNet == [dns |-> <<>>, head |-> <<>>, other |-> {}]

\* one more operation on key k
Bump(f, k) == IF k \in DOMAIN f THEN [f EXCEPT ![k] = @ + 1] ELSE f @@ (k :> 1)

\* the network operations of one _crawl_url call that found the caches hosts
\* and heads and returned o: getaddrinfo is called when the host is not in
\* the cache, session.head when the origin root is not, and fetch_page when
\* the fetch stage is entered.  An error that the code does not catch comes
\* from the validation of the arguments, before anything is sent.
NetOps(n, url, hosts_, heads_, o) ==
    LET host == Lower(urlparse(url).host)
        root == OriginOf(urlparse(url))
        k == Len(o.stages)
    IN [dns |-> IF k >= 2 /\ host # "" /\ host \notin DOMAIN hosts_
                   /\ ~(o.raised /\ k = 2)
                THEN Bump(n.dns, host) ELSE n.dns,
        head |-> IF k >= 3 /\ root \notin DOMAIN heads_ /\ ~(o.raised /\ k = 3)
                 THEN Bump(n.head, root) ELSE n.head,
        other |-> IF k >= 4 THEN n.other \cup {"fetch"} ELSE n.other]

\* robots.txt is requested for a start URL with a scheme and a host
RobotsOps(n, seed_group) ==
    IF \E i \in 1..Len(seed_group.start_urls) :
          LET parsed == urlparse(seed_group.start_urls[i])
          IN parsed.scheme # "" /\ ~NoNetloc(parsed)
    THEN [n EXCEPT !.other = @ \cup {"robots"}]
    ELSE n

NoCall == [source |-> "", failures |-> <<>>, recovered |-> <<>>, before |-> <<>>, now |-> 0]
EmptyCache == <<>>

\* the variables of one group's processing, at rest
GroupIdle ==
    /\ targets' = <<>> /\ ti' = 1
    /\ entries' = <<>> /\ failures' = <<>> /\ recovered' = <<>>
    /\ pos' = 0 /\ snap' = <<>> /\ derived' = <<>> /\ log' = <<>>
    /\ call' = NoCall /\ prevFile' = <<>>

InitWith(groups) ==
    /\ seed_groups = groups
    /\ config = [registry |-> Registry(TRUE, groups), source_name |-> ""]
    /\ pc = "boot" /\ cause = "" /\ run = 0 /\ clock = 0
    /\ file = <<>> /\ records = <<>>
    /\ hosts = EmptyCache /\ heads = EmptyCache
    /\ gi = 1 /\ targets = <<>> /\ ti = 1
    /\ entries = <<>> /\ failures = <<>> /\ recovered = <<>>
    /\ all_entries = <<>> /\ pos = 0
    /\ snap = <<>> /\ derived = <<>> /\ call = NoCall /\ log = <<>>
    /\ resolved = <<>>
    /\ results = <<>> /\ committed = <<>> /\ prevFile = <<>>
    /\ net = NoNet

Init == InitWith(RunGroups)

\* FederalSourceCrawler.__init__ in a new process: the caches are empty and the
\* ledger is loaded from the file
Construct(maxRuns) ==
    /\ pc \in {"boot", "dead", "done"}
    /\ run < maxRuns
    /\ run' = run + 1
    /\ LET loaded == _load_failed_url_records(file)
       IN IF loaded.raised
          THEN /\ pc' = "dead" /\ cause' = "load"
               /\ records' = <<>> /\ committed' = <<>>
          ELSE /\ pc' = "crawl" /\ cause' = ""
               /\ records' = loaded.records /\ committed' = loaded.records
    /\ hosts' = EmptyCache /\ heads' = EmptyCache /\ resolved' = <<>>
    /\ gi' = 1 /\ all_entries' = <<>> /\ results' = <<>>
    /\ clock' = run * Len(seed_groups)
    /\ GroupIdle
    /\ UNCHANGED <<seed_groups, config, file>>
    /\ net' = NoNet

\* crawl() with `except requests.RequestException` in place of `except Exception`
CrawlCatches_RequestOnly(cls) == cls = "RequestException"

\* crawl(): `except Exception` around _crawl_seed_group
CrawlCatches(cls) == cls \in {"Exception", "ValueError", "UnicodeError", "RequestException"}

\* the class of the error raised at a stage
ExcClass(stage) == IF stage = "dns" THEN "UnicodeError" ELSE "ValueError"

\* crawl() after the group at gi raised cls: `continue`, or the error leaves crawl()
AfterRaise(cls) ==
    IF CrawlCatches(cls)
    THEN /\ results' = Append(results, [status |-> "raised", entries |-> <<>>,
                                        lost |-> [entries |-> entries,
                                                  failures |-> failures,
                                                  recovered |-> recovered]])
         /\ gi' = gi + 1
         /\ pc' = IF gi = Len(seed_groups) THEN "done" ELSE "crawl"
         /\ cause' = ""
         /\ UNCHANGED all_entries
    ELSE /\ pc' = "dead" /\ cause' = "raised"
         /\ UNCHANGED <<results, gi, all_entries>>

\* _crawl_seed_group up to the loop: _collect_crawl_targets
BeginGroup ==
    /\ pc = "crawl"
    /\ LET g == seed_groups[gi]
       IN \E da \in g.allowed_web, ds \in g.sitemap_web :
            /\ targets' = _collect_crawl_targets(g, da, ds, records)
            /\ derived' = da \o ds
    /\ ti' = 1 /\ entries' = <<>> /\ failures' = <<>> /\ recovered' = <<>>
    /\ snap' = records /\ log' = <<>> /\ call' = NoCall /\ prevFile' = <<>>
    /\ pc' = "targets"
    /\ clock' = clock + 1
    /\ UNCHANGED <<seed_groups, config, cause, run, file, records, hosts, heads, resolved, gi,
                   all_entries, pos, results, committed>>
    /\ net' = RobotsOps(net, seed_groups[gi])

\* _collect_crawl_targets raises (the robots or sitemap fetch raises an error
\* that is no requests.RequestException)
CollectRaises ==
    /\ pc = "crawl"
    /\ AfterRaise("ValueError")
    /\ clock' = clock + 1
    /\ GroupIdle
    /\ UNCHANGED <<seed_groups, config, run, file, records, hosts, heads, resolved, committed>>
    /\ net' = [net EXCEPT !.other = @ \cup {"robots"}]

\* entries, failures and recovered of _crawl_seed_group
Lists(entries_, failures_, recovered_) ==
    [entries |-> entries_, failures |-> failures_, recovered |-> recovered_]

\* the body of the loop that lists every URL as recovered
Appended_AlwaysRecovered(lists, url, o) ==
    IF o.entry # NoEntry
    THEN [lists EXCEPT !.entries = Append(@, o.entry), !.recovered = Append(@, url)]
    ELSE [lists EXCEPT !.recovered = Append(@, url),
                       !.failures = Append(@, <<url, IF o.reason # <<>> THEN o.reason
                                                     ELSE <<"unknown">>>>)]

\* the body of the loop over crawl_targets, _crawl_url having returned o
Appended(lists, url, o) ==
    IF o.entry # NoEntry
    THEN [lists EXCEPT !.entries = Append(@, o.entry), !.recovered = Append(@, url)]
    ELSE [lists EXCEPT !.failures = Append(@, <<url, IF o.reason # <<>> THEN o.reason
                                                     ELSE <<"unknown">>>>)]

\* one iteration of the loop over crawl_targets in _crawl_seed_group
CrawlTarget(W) ==
    /\ pc = "targets" /\ ti <= Len(targets)
    /\ \E w \in W :
         LET url == targets[ti]
             o == _crawl_url(url, NameOr(seed_groups[gi], ""), hosts, heads, w)
         IN /\ ~o.raised
            /\ hosts' = o.hosts /\ heads' = o.heads
            /\ LET grown == Appended(Lists(entries, failures, recovered), url, o)
               IN /\ entries' = grown.entries
                  /\ failures' = grown.failures
                  /\ recovered' = grown.recovered
            /\ net' = NetOps(net, url, hosts, heads, o)
            /\ log' = Append(log, [url |-> url, stages |-> o.stages,
                                   reason |-> o.reason, ok |-> o.entry # NoEntry])
            /\ resolved' = IF DOMAIN o.hosts # DOMAIN hosts
                           THEN resolved @@ (Lower(urlparse(url).host) :> w.dns.kind)
                           ELSE resolved
    /\ ti' = ti + 1
    /\ UNCHANGED <<seed_groups, config, pc, cause, run, clock, file, records, gi, targets, all_entries,
                   pos, snap, derived, call, results, committed, prevFile>>

\* _crawl_seed_group that records the outcomes so far (as in a `finally`)
\* when _crawl_url raises
TargetRaises_RecordsFirst(W) ==
    /\ pc = "targets" /\ ti <= Len(targets)
    /\ \E w \in W :
         LET o == _crawl_url(targets[ti], NameOr(seed_groups[gi], ""), hosts, heads, w)
         IN /\ o.raised
            /\ hosts' = o.hosts /\ heads' = o.heads
            /\ resolved' = IF DOMAIN o.hosts # DOMAIN hosts
                           THEN resolved @@ (Lower(urlparse(targets[ti]).host) :> w.dns.kind)
                           ELSE resolved
            /\ net' = NetOps(net, targets[ti], hosts, heads, o)
            /\ AfterRaise(ExcClass(w.exc))
    /\ records' = _record_failed_urls(records, NameOr(seed_groups[gi], "unknown"),
                                      failures, recovered, clock)
    /\ file' = LinesOf(records')
    /\ GroupIdle
    /\ UNCHANGED <<seed_groups, config, run, clock, committed>>

\* _crawl_url raises: the error leaves _crawl_seed_group
TargetRaises(W) ==
    /\ pc = "targets" /\ ti <= Len(targets)
    /\ \E w \in W :
         LET o == _crawl_url(targets[ti], NameOr(seed_groups[gi], ""), hosts, heads, w)
         IN /\ o.raised
            /\ hosts' = o.hosts /\ heads' = o.heads
            /\ resolved' = IF DOMAIN o.hosts # DOMAIN hosts
                           THEN resolved @@ (Lower(urlparse(targets[ti]).host) :> w.dns.kind)
                           ELSE resolved
            /\ net' = NetOps(net, targets[ti], hosts, heads, o)
            /\ AfterRaise(ExcClass(w.exc))
    /\ GroupIdle
    /\ UNCHANGED <<seed_groups, config, run, clock, file, records, committed>>

\* `if failures or recovered:` holds: _record_failed_urls up to its persist call
RecordOutcome ==
    /\ pc = "targets" /\ ti > Len(targets)
    /\ failures # <<>> \/ recovered # <<>>
    /\ LET source == NameOr(seed_groups[gi], "unknown")
           now == clock
       IN /\ records' = _record_failed_urls(records, source, failures, recovered, now)
          /\ call' = [source |-> source, failures |-> failures,
                      recovered |-> recovered, before |-> records, now |-> now]
    /\ prevFile' = file
    /\ pc' = "persist_open"
    /\ UNCHANGED <<seed_groups, config, net, cause, run, clock, file, hosts, heads, resolved, gi, targets, ti, entries,
                   failures, recovered, all_entries, pos, snap, derived, log,
                   results, committed>>

\* `if failures or recovered:` fails: nothing is recorded or written
SkipRecord ==
    /\ pc = "targets" /\ ti > Len(targets)
    /\ failures = <<>> /\ recovered = <<>>
    /\ pc' = "return"
    /\ UNCHANGED <<seed_groups, config, net, cause, run, clock, file, records, hosts, heads, resolved, gi, targets, ti,
                   entries, failures, recovered, all_entries, pos, snap, derived,
                   call, log, results, committed, prevFile>>

\* _persist_failed_url_records: path.open("w") truncates the file
PersistOpen ==
    /\ pc = "persist_open"
    /\ file' = <<>> /\ pos' = 0
    /\ pc' = "persist_write"
    /\ UNCHANGED <<seed_groups, config, net, cause, run, clock, records, hosts, heads, gi, targets, ti,
                   entries, failures, recovered, all_entries, snap, derived, call,
                   log, resolved, results, committed, prevFile>>

\* _persist_failed_url_records: one handle.write reaches the file
PersistWrite ==
    /\ pc = "persist_write" /\ pos < Len(records)
    /\ file' = Append(file, ObjectLine(records[pos + 1]))
    /\ pos' = pos + 1
    /\ UNCHANGED <<seed_groups, config, net, pc, cause, run, clock, records, hosts, heads, gi, targets, ti,
                   entries, failures, recovered, all_entries, snap, derived, call,
                   log, resolved, results, committed, prevFile>>

\* _persist_failed_url_records: the with block ends
PersistClose ==
    /\ pc = "persist_write" /\ pos = Len(records)
    /\ pc' = "return"
    /\ UNCHANGED <<seed_groups, config, net, cause, run, clock, file, records, hosts, heads, resolved, gi, targets, ti,
                   entries, failures, recovered, all_entries, pos, snap, derived,
                   call, log, results, committed, prevFile>>

\* _crawl_seed_group returns; crawl(): all_entries.extend(entries)
GroupReturn ==
    /\ pc = "return"
    /\ all_entries' = all_entries \o entries
    /\ results' = Append(results, [status |-> "returned", entries |-> entries,
                                   lost |-> [entries |-> <<>>, failures |-> <<>>,
                                             recovered |-> <<>>]])
    /\ committed' = records
    /\ gi' = gi + 1
    /\ pc' = IF gi = Len(seed_groups) THEN "done" ELSE "crawl"
    /\ GroupIdle
    /\ UNCHANGED <<seed_groups, config, net, cause, run, clock, file, records, hosts, heads, resolved>>

\* the process is killed (power loss, SIGKILL) while crawl() runs; its memory
\* is gone (records is kept as history: the ledger the process had)
Crash ==
    /\ pc \in {"crawl", "targets", "persist_open", "persist_write", "return"}
    /\ pc' = "dead" /\ cause' = "crash"
    /\ hosts' = EmptyCache /\ heads' = EmptyCache /\ resolved' = <<>>
    /\ gi' = 1 /\ all_entries' = <<>> /\ results' = <<>>
    /\ GroupIdle
    /\ UNCHANGED <<seed_groups, config, run, clock, file, records, committed>>
    /\ net' = NoNet

\* the process is killed while a record is being written: part of its line
\* has reached the file.  json.dumps(..., ensure_ascii=False) writes a
\* non-ASCII character of a URL as several bytes, so the part may end inside a
\* character.
CrashTorn ==
    /\ pc = "persist_write" /\ pos < Len(records)
    /\ \E kind \in {"notjson", "badutf8"} : file' = Append(file, OtherLine(kind))
    /\ pc' = "dead" /\ cause' = "crash"
    /\ hosts' = EmptyCache /\ heads' = EmptyCache /\ resolved' = <<>>
    /\ gi' = 1 /\ all_entries' = <<>> /\ results' = <<>>
    /\ GroupIdle
    /\ UNCHANGED <<seed_groups, config, run, clock, records, committed>>
    /\ net' = NoNet

\* the answers of the network in Spec: every host resolves and answers HEAD
RunWorlds ==
    [dns : {[kind |-> "ok", errno |-> ""]},
     head : {[kind |-> "status", status |-> 200, cls |-> ""]},
     html : HtmlAnswers,
     exc : {"", "fetch"}]

Next ==
    \/ Construct(MaxRuns)
    \/ BeginGroup
    \/ CollectRaises
    \/ CrawlTarget(RunWorlds)
    \/ TargetRaises(RunWorlds)
    \/ RecordOutcome
    \/ SkipRecord
    \/ PersistOpen
    \/ PersistWrite
    \/ PersistClose
    \/ GroupReturn
    \/ Crash
    \/ CrashTorn

Spec == Init /\ [][Next]_vars

\* ------------------------------------------------------------- SpecStages
\* One process over StageGroups against every answer of the network.
AllWorlds ==
    [dns : DnsAnswers \ {[kind |-> "unicodeerror", errno |-> ""]},
     head : HeadAnswers,
     html : HtmlAnswers,
     exc : ExcAnswers]

InitStages == InitWith(StageGroups)

NextStages ==
    \/ Construct(1)
    \/ BeginGroup
    \/ CollectRaises
    \/ CrawlTarget(AllWorlds)
    \/ TargetRaises(AllWorlds)
    \/ RecordOutcome
    \/ SkipRecord
    \/ PersistOpen
    \/ PersistWrite
    \/ PersistClose
    \/ GroupReturn
    \/ Crash
    \/ CrashTorn

SpecStages == InitStages /\ [][NextStages]_vars

\* ------------------------------------------------------------- SpecRecord
\* One _record_failed_urls call with arbitrary arguments (the two lists may
\* share URLs and repeat them) on an arbitrary well-formed ledger.
LedgerRecords ==
    {Record(k[1], k[2], c, 0, <<"fetch_failed">>) :
        k \in {<<"A", uRoot>>, <<"A", uP>>, <<"B", uRoot>>}, c \in {1, 2}}

\* the ledgers a crawler can have loaded: one record per key
Ledgers ==
    {l \in SeqsUpTo(LedgerRecords, MaxListLen) :
        \A i, j \in 1..Len(l) :
            (l[i].source = l[j].source /\ l[i].url = l[j].url) => i = j}

\* the (url, reason) pairs of a failure list
FailurePairs ==
    ({uRoot, uP} \X {<<"fetch_failed">>, <<"content_empty">>})
        \cup {<<EmptyUrl, <<"invalid_url">>>>, <<uP, <<>>>>}

InitRecord ==
    /\ seed_groups = <<>>
    /\ config = [registry |-> Registry(TRUE, <<>>), source_name |-> ""]
    /\ pc = "api" /\ cause = "" /\ run = 1 /\ clock = 1
    /\ records \in Ledgers /\ file = LinesOf(records)
    /\ hosts = EmptyCache /\ heads = EmptyCache
    /\ gi = 1 /\ targets = <<>> /\ ti = 1
    /\ entries = <<>> /\ failures = <<>> /\ recovered = <<>>
    /\ all_entries = <<>> /\ pos = 0
    /\ snap = <<>> /\ derived = <<>> /\ call = NoCall /\ log = <<>>
    /\ resolved = <<>>
    /\ results = <<>> /\ committed = records /\ prevFile = <<>>
    /\ net = NoNet

\* _record_failed_urls(source, failures, recovered), its rewrite of the file
\* included
RecordCall ==
    /\ pc = "api"
    /\ \E fs \in SeqsUpTo(FailurePairs, MaxListLen),
          rs \in SeqsUpTo({uRoot, uP}, MaxListLen) :
         /\ records' = _record_failed_urls(records, "A", fs, rs, clock)
         /\ call' = [source |-> "A", failures |-> fs, recovered |-> rs,
                     before |-> records, now |-> clock]
    /\ file' = LinesOf(records')
    /\ prevFile' = file
    /\ pc' = "called"
    /\ UNCHANGED <<seed_groups, config, net, cause, run, clock, hosts, heads, gi, targets, ti,
                   entries, failures, recovered, all_entries, pos, snap, derived,
                   log, resolved, results, committed>>

NextRecord == RecordCall

SpecRecord == InitRecord /\ [][NextRecord]_vars

\* --------------------------------------------------------------- SpecLoad
\* One construction of the crawler on an arbitrary ledger file.
FileLines ==
    {ObjectLine(Record("A", uRoot, 1, 0, <<"fetch_failed">>)),
     ObjectLine(Record("A", uP, 2, 0, <<"content_empty">>)),
     ObjectLine(Record("A", EmptyUrl, 1, 0, <<"fetch_failed">>)),
     ObjectLine(Record("", uP, 1, 0, <<"fetch_failed">>)),
     OtherLine("array"), OtherLine("notjson"), OtherLine("blank"),
     OtherLine("badutf8")}

InitLoad ==
    /\ seed_groups = RunGroups
    /\ config = [registry |-> Registry(TRUE, RunGroups), source_name |-> ""]
    /\ pc = "boot" /\ cause = "" /\ run = 0 /\ clock = 0
    /\ file \in SeqsUpTo(FileLines, MaxLines) /\ records = <<>>
    /\ hosts = EmptyCache /\ heads = EmptyCache
    /\ gi = 1 /\ targets = <<>> /\ ti = 1
    /\ entries = <<>> /\ failures = <<>> /\ recovered = <<>>
    /\ all_entries = <<>> /\ pos = 0
    /\ snap = <<>> /\ derived = <<>> /\ call = NoCall /\ log = <<>>
    /\ resolved = <<>>
    /\ results = <<>> /\ committed = <<>> /\ prevFile = <<>>
    /\ net = NoNet

NextLoad == Construct(1)

SpecLoad == InitLoad /\ [][NextLoad]_vars

\* ------------------------------------------------------------- SpecConfig
\* One process constructed from any registry file and any source name, and
\* its crawl.
Registries ==
    {Registry(FALSE, <<>>), Registry(TRUE, <<>>),
     Registry(TRUE, <<RunGroups[1]>>),
     Registry(TRUE, <<RunGroups[1], RunGroups[2]>>),
     Registry(TRUE, <<RunGroups[3], RunGroups[1]>>),
     Registry(TRUE, <<RunGroups[3]>>)}

\* None, a configured name, the same in lower case, names that nobody has
SourceNames == {"", "A", "a", "X", "unknown"}

InitConfig ==
    /\ seed_groups = <<>>
    /\ config = [registry |-> Registry(FALSE, <<>>), source_name |-> ""]
    /\ pc = "boot" /\ cause = "" /\ run = 0 /\ clock = 0
    /\ file = <<>> /\ records = <<>>
    /\ hosts = EmptyCache /\ heads = EmptyCache
    /\ gi = 1 /\ targets = <<>> /\ ti = 1
    /\ entries = <<>> /\ failures = <<>> /\ recovered = <<>>
    /\ all_entries = <<>> /\ pos = 0
    /\ snap = <<>> /\ derived = <<>> /\ call = NoCall /\ log = <<>>
    /\ resolved = <<>>
    /\ results = <<>> /\ committed = <<>> /\ prevFile = <<>>
    /\ net = NoNet

\* FederalSourceCrawler.__init__(data_dir, source_name), whole
ConstructFor ==
    /\ pc = "boot"
    /\ \E registry \in Registries, source_name \in SourceNames :
         LET loaded == _load_failed_url_records(file)
             selected == SelectSeedGroups(registry, source_name)
         IN /\ config' = [registry |-> registry, source_name |-> source_name]
            /\ IF loaded.raised
               THEN /\ pc' = "dead" /\ cause' = "load"
                    /\ records' = <<>> /\ committed' = <<>>
                    /\ seed_groups' = <<>>
               ELSE /\ records' = loaded.records /\ committed' = loaded.records
                    /\ seed_groups' = selected.groups
                    /\ IF selected.raised
                       THEN pc' = "dead" /\ cause' = "config"
                       ELSE pc' = "crawl" /\ cause' = ""
    /\ run' = run + 1
    /\ hosts' = EmptyCache /\ heads' = EmptyCache /\ resolved' = <<>>
    /\ gi' = 1 /\ all_entries' = <<>> /\ results' = <<>>
    /\ net' = NoNet
    /\ GroupIdle
    /\ UNCHANGED <<clock, file>>

NextConfig ==
    \/ ConstructFor
    \/ BeginGroup
    \/ CollectRaises
    \/ CrawlTarget(RunWorlds)
    \/ TargetRaises(RunWorlds)
    \/ RecordOutcome
    \/ SkipRecord
    \/ PersistOpen
    \/ PersistWrite
    \/ PersistClose
    \/ GroupReturn
    \/ Crash
    \/ CrashTorn

SpecConfig == InitConfig /\ [][NextConfig]_vars

\* the origin root whose HEAD verdict _probe_url_head looks up for a target
RootOf(url) == OriginOf(urlparse(url))

\* -------------------------------------------------------------- SpecProbe
\* One _probe_url_head call for any URL, any HEAD answer and any cache.
ProbeAnswers ==
    HeadAnswers
    \cup {[kind |-> "status", status |-> st, cls |-> ""] : st \in {301, 404, 499, 599}}
    \cup {[kind |-> "error", status |-> 0, cls |-> "Timeout"]}

ProbeUrls == {uRoot, uP, uB, uFtp, Url("https", "", "", <<"/", "p">>)}

ProbeCaches ==
    {EmptyCache,
     RootOf(uRoot) :> Verdict(TRUE, <<>>),
     RootOf(uRoot) :> Verdict(FALSE, <<"head_status", "503">>)}

InitProbe ==
    /\ seed_groups = <<>>
    /\ config = [registry |-> Registry(TRUE, <<>>), source_name |-> ""]
    /\ pc = "api" /\ cause = "" /\ run = 1 /\ clock = 1
    /\ file = <<>> /\ records = <<>>
    /\ hosts = EmptyCache /\ heads \in ProbeCaches
    /\ gi = 1 /\ targets = <<>> /\ ti = 1
    /\ entries = <<>> /\ failures = <<>> /\ recovered = <<>>
    /\ all_entries = <<>> /\ pos = 0
    /\ snap = <<>> /\ derived = <<>> /\ log = <<>>
    /\ \E url \in ProbeUrls, head \in ProbeAnswers :
         call = [url |-> url, head |-> head, before |-> heads,
                 verdict |-> Verdict(FALSE, <<>>)]
    /\ resolved = <<>>
    /\ results = <<>> /\ committed = <<>> /\ prevFile = <<>>
    /\ net = NoNet

\* _probe_url_head(url) against the answer call.head of the origin
ProbeCall ==
    /\ pc = "api"
    /\ LET probed == _probe_url_head(call.url, heads, call.head)
           parsed == urlparse(call.url)
       IN /\ heads' = probed.cache
          /\ call' = [call EXCEPT !.verdict = probed.verdict]
          /\ net' = IF parsed.scheme \in {"http", "https"} /\ ~NoNetloc(parsed)
                       /\ RootOf(call.url) \notin DOMAIN heads
                    THEN [net EXCEPT !.head = Bump(@, RootOf(call.url))]
                    ELSE net
    /\ pc' = "called"
    /\ UNCHANGED <<seed_groups, config, cause, run, clock, file, records, hosts, gi,
                   targets, ti, entries, failures, recovered, all_entries, pos,
                   snap, derived, log, resolved, results, committed, prevFile>>

NextProbe == ProbeCall

SpecProbe == InitProbe /\ [][NextProbe]_vars

\* ------------------------------------------------------------- SpecDerive
\* One _collect_crawl_targets call of a seed group "A" against a world of
\* robots.txt metadata and sitemap documents.

\* n page URLs of a host, numbered from + 1 .. from + n
Pages(host, from, n) ==
    [i \in 1..n |-> Url("https", host, "", <<"/", ToString(from + i)>>)]

\* a sitemap URL of a.de
SM(name) == Url("https", "a.de", "", <<"/", name>>)

\* the same URL as another string: the host in upper case
SMUpper(name) == Url("https", "A.de", "", <<"/", name>>)

Scenario(start_urls, allowed_domains, robots, web, ledger) ==
    [start_urls |-> start_urls, allowed_domains |-> allowed_domains,
     robots |-> robots, web |-> web, ledger |-> ledger]

\* robots.txt of a.de and b.de with na and nb Allow lines; in the second
\* variant a.de also allows a privacy page and repeats its first page
AllowedScenarios ==
    {Scenario(starts, <<>>,
              (RootOf(uRoot) :> Metadata(IF variant = "plain" THEN Pages("a.de", 0, na)
                                         ELSE <<uKw>> \o Pages("a.de", 0, na)
                                                  \o Pages("a.de", 0, Min(na, 1)),
                                         <<>>))
                  @@ (RootOf(uB) :> Metadata(Pages("b.de", 0, nb), <<>>)),
              <<>>, <<>>) :
        starts \in {<<uRoot, uB>>, <<uFtp, uRoot, uP, uB>>},
        na \in {0, 1, 24, 25, 26, 40}, nb \in {0, 1, 3},
        variant \in {"plain", "mixed"}}

\* one sitemap that is a urlset of n URLs
FlatScenarios ==
    {Scenario(<<uRoot>>, <<>>,
              RootOf(uRoot) :> Metadata(<<>>, <<SM("s1.xml")>>),
              SM("s1.xml") :> SitemapDoc(kind, Pages("a.de", 0, n)),
              <<>>) :
        n \in {0, 1, 499, 500, 501, 1000}, kind \in {"urlset", "other"}}

\* one sitemap that is an index of three urlsets, and 40 Allow lines
IndexScenarios ==
    {Scenario(<<uRoot>>, <<>>,
              RootOf(uRoot) :> Metadata(Pages("a.de", 9000, 40), <<SM("s0.xml")>>),
              (SM("s0.xml") :> SitemapDoc("index", <<SM("l1.xml"), SM("l2.xml"), SM("l3.xml")>>))
                  @@ (SM("l1.xml") :> SitemapDoc("urlset", Pages("a.de", 0, n1)))
                  @@ (SM("l2.xml") :> SitemapDoc("urlset", Pages("a.de", 1000, n2)))
                  @@ (SM("l3.xml") :> SitemapDoc("urlset", Pages("a.de", 2000, 1))),
              <<>>) :
        n1 \in {1, 300, 500, 1000}, n2 \in {1, 300, 500}}

\* a urlset and then an index of two urlsets, on one or two start URLs
TwoScenarios ==
    {Scenario(starts, <<>>,
              (RootOf(uRoot) :> Metadata(<<>>, IF Len(starts) = 1
                                              THEN <<SM("s1.xml"), SM("s0.xml")>>
                                              ELSE <<SM("s1.xml")>>))
                  @@ (RootOf(uB) :> Metadata(<<>>, <<SM("s0.xml")>>)),
              (SM("s1.xml") :> SitemapDoc("urlset", Pages("a.de", 5000, n1)))
                  @@ (SM("s0.xml") :> SitemapDoc("index", <<SM("l1.xml"), SM("l2.xml")>>))
                  @@ (SM("l1.xml") :> SitemapDoc("urlset", Pages("a.de", 0, n2)))
                  @@ (SM("l2.xml") :> SitemapDoc("urlset", Pages("a.de", 1000, n2))),
              <<>>) :
        starts \in {<<uRoot>>, <<uRoot, uB>>},
        n1 \in {100, 500, 501}, n2 \in {1, 300}}

\* nested and self-referential indexes: s0 -> i1 -> i2 -> i3 -> i4; in the
\* looping variants every index also lists s0, itself and, spelled with
\* another host case, i1
GraphScenarios ==
    {Scenario(<<uRoot>>, <<>>,
              RootOf(uRoot) :> Metadata(<<>>, <<SM("s0.xml"), SMUpper("s0.xml")>>),
              LET back == IF loops THEN <<SM("s0.xml"), SMUpper("i1.xml")>> ELSE <<>>
                  i1doc == SitemapDoc("index", back \o <<SM("i1.xml"), SM("i2.xml"), SM("l1.xml")>>)
              IN (SM("s0.xml") :> SitemapDoc("index", back \o <<SM("i1.xml"), SM("l0.xml")>>))
                  @@ (SMUpper("s0.xml") :> SitemapDoc("index", back \o <<SM("i1.xml"), SM("l0.xml")>>))
                  @@ (SM("i1.xml") :> i1doc)
                  @@ (SMUpper("i1.xml") :> i1doc)
                  @@ (SM("i2.xml") :> SitemapDoc("index", back \o <<SM("i3.xml"), SM("l2.xml")>>))
                  @@ (SM("i3.xml") :> SitemapDoc("index", <<SM("i4.xml"), SM("l3.xml")>>))
                  @@ (SM("i4.xml") :> SitemapDoc("urlset", Pages("a.de", 4000, 1)))
                  @@ (SM("l0.xml") :> SitemapDoc("urlset", Pages("a.de", 0, n)))
                  @@ (SM("l1.xml") :> SitemapDoc(leaf, Pages("a.de", 1000, n)))
                  @@ (SM("l2.xml") :> SitemapDoc("urlset", Pages("a.de", 2000, n)))
                  @@ (SM("l3.xml") :> SitemapDoc("urlset", Pages("a.de", 3000, n))),
              <<>>) :
        loops \in BOOLEAN, n \in {1, 2}, leaf \in {"urlset", "badxml", "error"}}

\* further spellings and neighbours of the registry's URLs
uRootUpper == Url("HTTPS", "A.de", "443", <<"/">>)
uPs == Url("https", "a.de", "", <<"/", "p", "/">>)
uPort == Url("https", "a.de", "8080", <<"/">>)
uKwUpper == Url("https", "a.de", "", <<"/", "Datenschutz">>)
uKwQuery == [uP EXCEPT !.query = <<<<"id", "Privacy-Policy">>>>]
uKwHost == Url("https", "Cookie.de", "", <<"/">>)
uBRoot == Url("https", "b.de", "", <<"/">>)
uBKw == Url("https", "b.de", "", <<"/", "Cookies">>)

\* small inputs of every kind for the four sources of targets: repeated and
\* differently spelled URLs, bare origins, URLs with excluded keywords
StartUrlLists ==
    {<<uRoot>>, <<uRoot, uRootUpper, uRoot>>, <<uPs, uP, uBRoot>>, <<uKwUpper, uRoot>>,
     <<uKwHost, uB>>, <<uBRoot, uPort, uKwQuery>>, <<uP, uRoot, uB2>>, <<uFtp, uRootUpper>>}

AllowLists == {<<>>, <<uP, uKw>>, <<uPss, uRoot, uKwUpper>>}

UrlsetLists == {<<>>, <<uP, uRootUpper, uBKw>>, <<uB2, uBRoot, uKwUpper, uPs>>}

RetryLedgers ==
    {<<>>,
     <<Record("A", uP, 1, 0, <<"fetch_failed">>)>>,
     <<Record("A", uBKw, 1, 0, <<"fetch_failed">>),
       Record("B", uB2, 1, 0, <<"fetch_failed">>),
       Record("A", uB, 2, 0, <<"content_empty">>)>>,
     <<Record("A", uBRoot, 1, 0, <<"fetch_failed">>),
       Record("A", uRoot, 1, 0, <<"fetch_failed">>)>>}

CollectScenarios ==
    {Scenario(starts, <<>>,
              RootOf(uRoot) :> Metadata(allows, <<SM("s1.xml")>>),
              SM("s1.xml") :> SitemapDoc("urlset", locs),
              ledger) :
        starts \in StartUrlLists, allows \in AllowLists, locs \in UrlsetLists,
        ledger \in RetryLedgers}

\* what a sitemap request can meet: a urlset, a request error or a status
\* of 400 and more, or a body that is not XML
NodeKinds == {"urlset", "error", "badxml"}

\* robots.txt names f0 and the index s0 of three children, each node being
\* there, failing, or malformed
SiblingScenarios ==
    {Scenario(<<uRoot>>, <<>>,
              RootOf(uRoot) :> Metadata(<<>>, <<SM("f0.xml"), SM("s0.xml")>>),
              (SM("f0.xml") :> SitemapDoc(k0, Pages("a.de", 7000, 1)))
                  @@ (SM("s0.xml") :> SitemapDoc("index", <<SM("c1.xml"), SM("c2.xml"), SM("c3.xml")>>))
                  @@ (SM("c1.xml") :> SitemapDoc(k1, Pages("a.de", 1000, 2)))
                  @@ (SM("c2.xml") :> SitemapDoc(k2, Pages("a.de", 2000, 2)))
                  @@ (SM("c3.xml") :> SitemapDoc(k3, Pages("a.de", 3000, 2))),
              <<>>) :
        k0 \in NodeKinds, k1 \in NodeKinds, k2 \in NodeKinds, k3 \in NodeKinds}

\* a group with allowed_domains: the index of robots.txt lists a sitemap of
\* a.de and one of another host, and the urlsets list pages of both hosts
DomainScenarios ==
    {Scenario(<<uRoot>>, <<domain>>,
              RootOf(uRoot) :> Metadata(<<>>, <<SM("d0.xml")>>),
              (SM("d0.xml") :> SitemapDoc("index", <<SM("d1.xml"),
                                                     Url("https", host, "", <<"/", "d2.xml">>)>>))
                  @@ (SM("d1.xml") :> SitemapDoc("urlset",
                                                 <<Url("https", "a.de", "", <<"/", "1">>),
                                                   Url("https", host, "", <<"/", "2">>)>>))
                  @@ (Url("https", host, "", <<"/", "d2.xml">>)
                          :> SitemapDoc("urlset", <<Url("https", host, "", <<"/", "3">>)>>)),
              <<>>) :
        domain \in {"a.de", "A.de"}, host \in {"www.a.de", "nota.de", "b.de"}}

\* <loc>https://a.de///</loc>: a root written with three slashes
uRoot3 == Url("https", "a.de", "", <<"/", "/", "/">>)

\* the sitemap of the start URL's origin lists the root with three slashes,
\* alone or with a page
SlashScenarios ==
    {Scenario(starts, <<>>,
              RootOf(uRoot) :> Metadata(<<>>, <<SM("s1.xml")>>),
              SM("s1.xml") :> SitemapDoc("urlset", locs),
              <<>>) :
        starts \in {<<uRoot>>, <<uRoot, uB>>},
        locs \in {<<uRoot3>>, <<uRoot3, uP>>, <<uP, uRoot3>>}}

DeriveScenarios ==
    AllowedScenarios \cup FlatScenarios \cup IndexScenarios \cup TwoScenarios
        \cup GraphScenarios \cup CollectScenarios \cup SiblingScenarios
        \cup DomainScenarios \cup SlashScenarios

\* the outcome of the call, before it is made
NoDerivation == [allowed |-> <<>>, sitemap |-> <<>>, fetched |-> <<>>]

InitDerive ==
    /\ seed_groups = <<>>
    /\ config \in DeriveScenarios
    /\ pc = "api" /\ cause = "" /\ run = 1 /\ clock = 1
    /\ records = config.ledger /\ file = LinesOf(records)
    /\ hosts = EmptyCache /\ heads = EmptyCache
    /\ gi = 1 /\ targets = <<>> /\ ti = 1
    /\ entries = <<>> /\ failures = <<>> /\ recovered = <<>>
    /\ all_entries = <<>> /\ pos = 0
    /\ snap = <<>> /\ derived = <<>> /\ log = <<>>
    /\ call = NoDerivation
    /\ resolved = <<>>
    /\ results = <<>> /\ committed = records /\ prevFile = <<>>
    /\ net = NoNet

\* _collect_crawl_targets(seed_group) for the group of the scenario
Collect ==
    /\ pc = "api"
    /\ LET derived_allowed == _derive_allowed_urls(config.start_urls, config.robots)
           walked == _derive_sitemap_urls(config.start_urls, config.allowed_domains,
                                          config.robots, config.web)
           seed_group == SeedGroup(TRUE, "A", config.start_urls, {}, {})
       IN /\ call' = [allowed |-> derived_allowed, sitemap |-> walked.urls,
                      fetched |-> walked.st.fetched]
          /\ derived' = derived_allowed \o walked.urls
          /\ targets' = _collect_crawl_targets(seed_group, derived_allowed,
                                               walked.urls, records)
          /\ net' = [net EXCEPT !.other =
                        @ \cup {"robots"}
                          \cup (IF walked.st.fetched # <<>> THEN {"sitemap"} ELSE {})]
    /\ snap' = records
    /\ pc' = "called"
    /\ UNCHANGED <<seed_groups, config, cause, run, clock, file, records, hosts, heads,
                   gi, ti, entries, failures, recovered, all_entries, pos, log,
                   resolved, results, committed, prevFile>>

NextDerive == Collect

SpecDerive == InitDerive /\ [][NextDerive]_vars

\* ---------------------------------------------------------- SpecNormalize
\* normalize_url applied to a URL and to its own result.

\* query strings: none, one parameter, a repeated one, tracking parameters
\* and parameters without a value
NormalizeQueries ==
    {<<>>,
     <<<<"id", "1">>>>,
     <<<<"id", "2">>, <<"utm_source", "x">>, <<"id", "1">>>>,
     <<<<"ref", "x">>, <<"id", "">>>>,
     <<<<"id", "2">>, <<"b", "1">>, <<"id", "1">>>>,
     <<<<"utm_source", "">>, <<"id", "1">>, <<"id", "">>, <<"ref", "y">>>>}

NormalizePaths ==
    {<<>>, <<"/">>, <<"/", "p">>, <<"/", "p", "/">>, <<"/", "p", "/", "/">>,
     <<"/", "/">>, <<"/", "/", "/">>}

NormalizeUrls ==
    {[scheme |-> scheme, host |-> host, port |-> port, path |-> path,
      query |-> query, fragment |-> fragment] :
        scheme \in {"https", "HTTPS"}, host \in {"a.de", "A.de"},
        port \in {"", "80", "443", "8080"}, path \in NormalizePaths,
        query \in NormalizeQueries, fragment \in {"", "f"}}

InitNormalize ==
    /\ seed_groups = <<>>
    /\ config = [registry |-> Registry(TRUE, <<>>), source_name |-> ""]
    /\ pc = "api" /\ cause = "" /\ run = 1 /\ clock = 1
    /\ records = <<>> /\ file = <<>>
    /\ hosts = EmptyCache /\ heads = EmptyCache
    /\ gi = 1 /\ targets = <<>> /\ ti = 1
    /\ entries = <<>> /\ failures = <<>> /\ recovered = <<>>
    /\ all_entries = <<>> /\ pos = 0
    /\ snap = <<>> /\ derived = <<>> /\ log = <<>>
    /\ \E url \in NormalizeUrls : call = [url |-> url, once |-> EmptyUrl, twice |-> EmptyUrl]
    /\ resolved = <<>>
    /\ results = <<>> /\ committed = <<>> /\ prevFile = <<>>
    /\ net = NoNet

\* normalized = self.normalize_url(url), and the same again on the result
Normalize ==
    /\ pc = "api"
    /\ call' = [call EXCEPT !.once = normalize_url(call.url),
                            !.twice = normalize_url(normalize_url(call.url))]
    /\ pc' = "called"
    /\ UNCHANGED <<seed_groups, config, net, cause, run, clock, file, records, hosts,
                   heads, gi, targets, ti, entries, failures, recovered, all_entries,
                   pos, snap, derived, log, resolved, results, committed, prevFile>>

NextNormalize == Normalize

SpecNormalize == InitNormalize /\ [][NextNormalize]_vars

\* --------------------------------------------------- calls of one method
\* a crawler on which one method is about to be called: everything but the
\* arguments of the call
BeforeCall ==
    /\ seed_groups = <<>>
    /\ config = [registry |-> Registry(TRUE, <<>>), source_name |-> ""]
    /\ pc = "api" /\ cause = "" /\ run = 1 /\ clock = 1
    /\ file = <<>> /\ records = <<>>
    /\ hosts = EmptyCache /\ heads = EmptyCache
    /\ gi = 1 /\ targets = <<>> /\ ti = 1
    /\ entries = <<>> /\ failures = <<>> /\ recovered = <<>>
    /\ all_entries = <<>> /\ pos = 0
    /\ snap = <<>> /\ derived = <<>> /\ log = <<>>
    /\ resolved = <<>>
    /\ results = <<>> /\ committed = <<>> /\ prevFile = <<>>
    /\ net = NoNet

\* what a call leaves alone when it only returns a value
OnlyReturns ==
    UNCHANGED <<seed_groups, config, net, cause, run, clock, file, records, hosts,
                heads, gi, targets, ti, entries, failures, recovered, all_entries,
                pos, snap, derived, log, resolved, results, committed, prevFile>>

\* --------------------------------------------------------------- SpecEntry
\* Two _crawl_url calls that reach a page with content: any two target URLs,
\* seed groups, pages and times.
EntryCalls ==
    [url : {uRoot, uRootUpper, uP, uPs, uB}, seed_name : {"A", "C"},
     html : {"page", "page2"}, now : {1, 2}]

NoDict == [id |-> <<>>]

InitEntry ==
    /\ BeforeCall
    /\ \E a, b \in EntryCalls : call = [a |-> a, b |-> b, ea |-> NoDict, eb |-> NoDict]

\* the dict a _crawl_url call returns when host and origin answer
CrawledDict(c) ==
    LET w == [dns |-> [kind |-> "ok", errno |-> ""],
              head |-> [kind |-> "status", status |-> 200, cls |-> ""],
              html |-> c.html, exc |-> ""]
        o == _crawl_url(c.url, c.seed_name, EmptyCache, EmptyCache, w)
    IN IF o.entry = NoEntry THEN NoDict
       ELSE EntryDict(o.entry, c.url, c.seed_name, c.html, c.now)

CrawlBoth ==
    /\ pc = "api"
    /\ call' = [call EXCEPT !.ea = CrawledDict(call.a), !.eb = CrawledDict(call.b)]
    /\ pc' = "called"
    /\ OnlyReturns

NextEntry == CrawlBoth

SpecEntry == InitEntry /\ [][NextEntry]_vars

\* --------------------------------------------------------------- SpecFetch
\* The outbound requests of a crawler on a clock that counts seconds: the
\* robots.txt and sitemap requests of the derivations, the HEAD probe, and
\* fetch_page with its robots check, its rate limit and its retries.

\* rate_limit: float = 2.0 and retry_count: int = 3
rate_limit_delay == 2
retry_count_default == 3

\* number of operations in one behaviour of SpecFetch, and the time up to
\* which the crawler may idle between them
MaxOps == 2
MaxIdle == 3

\* 2 ** attempt
Pow2(k) == IF k = 0 THEN 1 ELSE IF k = 1 THEN 2 ELSE IF k = 2 THEN 4 ELSE 8

\* what RobotFileParser.read() meets at the origin's /robots.txt: rules that
\* allow or disallow the URL for the user agent, an HTTPError of some status,
\* a URLError (no connection), or a body that is not UTF-8
RobotsReads ==
    {"allows", "disallows", "http_401", "http_403", "http_404", "http_503",
     "urlerror", "undecodable"}

\* check_robots_txt(url): rp.read() sets disallow_all for 401 and 403 and
\* allow_all for the other 4xx; after another HTTPError nothing was read and
\* can_fetch answers False; URLError and UnicodeDecodeError are raised by
\* read() and caught
check_robots_txt(read) ==
    CASE read = "allows" -> TRUE
      [] read = "disallows" -> FALSE
      [] read \in {"http_401", "http_403"} -> FALSE
      [] read = "http_404" -> TRUE
      [] read = "http_503" -> FALSE
      [] OTHER -> TRUE

\* what session.get does for a page: a response without error status, a
\* requests.RequestException, or an error of another class
GetAnswers == {"ok", "request_error", "other_error"}

\* the answers that the attempts of one call get, up to the attempt that ends
\* the call: request errors, then possibly a response or another error
AnswersOf(retry_count) ==
    {a \in UNION {[1..n -> GetAnswers] : n \in 0..retry_count} :
        /\ \A k \in 1..(Len(a) - 1) : a[k] = "request_error"
        /\ Len(a) < retry_count => (Len(a) >= 1 /\ a[Len(a)] # "request_error")}

\* the clock and self.last_request_time, with the requests sent so far and
\* the time.sleep calls of the retries
Timing(now, last, sent, slept) ==
    [now |-> now, last |-> last, sent |-> sent, slept |-> slept]

Request(kind, at) == [kind |-> kind, at |-> at]

\* the session.get calls of fetch_page among the requests sent
PageGets(sent) == SelectSeq(sent, LAMBDA r : r.kind = "page")

\* _enforce_rate_limit: sleep until rate_limit_delay has passed since
\* last_request_time, then set it to the clock
_enforce_rate_limit(t) ==
    LET elapsed == t.now - t.last
        now == IF elapsed < rate_limit_delay THEN t.now + (rate_limit_delay - elapsed)
               ELSE t.now
    IN [t EXCEPT !.now = now, !.last = now]

\* the attempt loop with a pause of 2 ** attempt after the last attempt too
RECURSIVE AttemptLoop_SleepAfterLast(_, _, _, _)
AttemptLoop_SleepAfterLast(attempt, retry_count, answers, t) ==
    IF attempt >= retry_count THEN [result |-> "none", t |-> t]
    ELSE LET limited == _enforce_rate_limit(t)
             got == [limited EXCEPT !.sent = Append(@, Request("page", limited.now))]
         IN CASE answers[attempt + 1] = "ok" -> [result |-> "html", t |-> got]
              [] answers[attempt + 1] = "other_error" -> [result |-> "raised", t |-> got]
              [] OTHER ->
                    AttemptLoop_SleepAfterLast(attempt + 1, retry_count, answers,
                        [got EXCEPT !.now = @ + Pow2(attempt),
                                    !.slept = Append(@, Pow2(attempt))])

\* `for attempt in range(retry_count)` of fetch_page
RECURSIVE AttemptLoop(_, _, _, _)
AttemptLoop(attempt, retry_count, answers, t) ==
    IF attempt >= retry_count THEN [result |-> "none", t |-> t]
    ELSE LET limited == _enforce_rate_limit(t)
             got == [limited EXCEPT !.sent = Append(@, Request("page", limited.now))]
         IN CASE answers[attempt + 1] = "ok" -> [result |-> "html", t |-> got]
              [] answers[attempt + 1] = "other_error" -> [result |-> "raised", t |-> got]
              [] OTHER ->
                    IF attempt < retry_count - 1
                    THEN AttemptLoop(attempt + 1, retry_count, answers,
                                     [got EXCEPT !.now = @ + Pow2(attempt),
                                                 !.slept = Append(@, Pow2(attempt))])
                    ELSE [result |-> "none", t |-> got]

\* fetch_page(url, retry_count): the robots check requests /robots.txt, then
\* the attempts; result is "html" (response.text), "none" or "raised"
FetchPage(retry_count, read, answers, t) ==
    LET checked == [t EXCEPT !.sent = Append(@, Request("robots_check", t.now))]
    IN IF ~check_robots_txt(read) THEN [result |-> "none", t |-> checked]
       ELSE AttemptLoop(0, retry_count, answers, checked)

NoFetch == [retry_count |-> 0, read |-> "", answers |-> <<>>, result |-> "",
            sent |-> <<>>, slept |-> <<>>]

InitFetch ==
    /\ BeforeCall
    /\ call = [last_request_time |-> 0, ops |-> 0, fetch |-> NoFetch]

\* time passes between two operations
Idle ==
    /\ pc = "api"
    /\ clock < MaxIdle
    /\ call.ops < MaxOps
    /\ clock' = clock + 1
    /\ UNCHANGED <<seed_groups, config, net, pc, cause, run, file, records, hosts,
                   heads, gi, targets, ti, entries, failures, recovered, all_entries,
                   pos, snap, derived, log, resolved, results, committed, prevFile,
                   call>>

\* a request that the crawler sends with self.session directly:
\* session.get(robots_url) in _get_robots_metadata, session.get(sitemap_url)
\* in _fetch_sitemap_urls, session.head(root) in _probe_url_head
SessionRequest(kind) ==
    /\ pc = "api"
    /\ call.ops < MaxOps
    /\ log' = Append(log, Request(kind, clock))
    /\ call' = [call EXCEPT !.ops = @ + 1]
    /\ UNCHANGED <<seed_groups, config, net, pc, cause, run, clock, file, records,
                   hosts, heads, gi, targets, ti, entries, failures, recovered,
                   all_entries, pos, snap, derived, resolved, results, committed,
                   prevFile>>

\* fetch_page(url, retry_count) against a robots.txt and the answers that the
\* attempts get
FetchPageCall(retry_count, read, answers) ==
    /\ pc = "api"
    /\ call.ops < MaxOps
    /\ LET done == FetchPage(retry_count, read, answers,
                             Timing(clock, call.last_request_time, <<>>, <<>>))
       IN /\ clock' = done.t.now
          /\ log' = log \o done.t.sent
          /\ call' = [last_request_time |-> done.t.last, ops |-> call.ops + 1,
                      fetch |-> [retry_count |-> retry_count, read |-> read,
                                 answers |-> answers, result |-> done.result,
                                 sent |-> done.t.sent, slept |-> done.t.slept]]
    /\ UNCHANGED <<seed_groups, config, net, pc, cause, run, file, records, hosts,
                   heads, gi, targets, ti, entries, failures, recovered, all_entries,
                   pos, snap, derived, resolved, results, committed, prevFile>>

NextFetch ==
    \/ Idle
    \/ \E kind \in {"robots", "sitemap", "head"} : SessionRequest(kind)
    \/ \E retry_count \in 0..retry_count_default, read \in RobotsReads :
          \E answers \in AnswersOf(retry_count) :
              FetchPageCall(retry_count, read, answers)

SpecFetch == InitFetch /\ [][NextFetch]_vars

\* ----------------------------------------------------------- SpecTranslate
\* TranslationGenerator.translate on a generator with or without hooks. A text
\* is a sequence of words and punctuation marks of one sentence, shorter than
\* the 2000 characters at which generate_easy_german cuts.

TranslateTexts ==
    {<<>>,
     <<"Antrag", "einreichen">>,
     <<"Hilfe", "weil", "Not", ".">>,
     <<"Geld", ",", "Rat", ",", "Hilfe">>,
     <<"Geld", ",", "Rat", "!">>}

TargetLangs == {"de-LEICHT", "de-leicht", "DE_Leicht", "en", "fr"}

\* a Python value that a hook returns: a str, None, or a list
PyStr(s) == [type |-> "str", s |-> s]
PyNone == [type |-> "none", s |-> <<>>]
PyList(s) == [type |-> "list", s |-> s]

\* a hook: not configured, raising an Exception, or returning a value that
\* it makes of its two arguments
Hooks == {"absent", "raises", "returns_text", "returns_empty", "returns_none",
          "returns_list"}

HookValue(hook, text, arg) ==
    CASE hook = "returns_text" -> PyStr(<<"[", arg, "]">> \o text)
      [] hook = "returns_empty" -> PyStr(<<>>)
      [] hook = "returns_list" -> PyList(text)
      [] OTHER -> PyNone

\* re.sub of the connectors by '.'
Connectors == {"obwohl", "während", "da", "weil", "damit", "sodass", "indem"}

\* the replacements mapping of generate_easy_german
Simpler(word) ==
    CASE word = "Voraussetzung" -> "Bedingung"
      [] word = "beantragen" -> "anfragen"
      [] word = "zuständig" -> "verantwortlich"
      [] word = "einreichen" -> "abgeben"
      [] OTHER -> word

\* generate_easy_german(text)
generate_easy_german(text) ==
    IF text = <<>> THEN <<>>
    ELSE LET cut == [i \in 1..Len(text) |->
                        IF text[i] \in Connectors THEN "." ELSE text[i]]
             parts == Cardinality({i \in 1..Len(cut) : cut[i] = ","}) + 1
             split == [i \in 1..Len(cut) |->
                          IF parts > 2 /\ cut[i] = "," THEN "." ELSE cut[i]]
             simple == [i \in 1..Len(split) |-> Simpler(split[i])]
         IN IF simple[Len(simple)] \in {".", "!", "?"} THEN simple
            ELSE Append(simple, ".")

Translation(text, method, generator, timestamp) ==
    [text |-> text, method |-> method, generator |-> generator,
     timestamp |-> timestamp]

\* the call ends with an exception
Raised == [raised |-> TRUE]

\* translate with hooks that are called outside any try block
translate_NoCatch(text, target_lang, llm_call, mt_call, timestamp) ==
    IF Lower(target_lang) \in {"de-leicht", "de_leicht"}
    THEN LET simple == generate_easy_german(text)
             improved == HookValue(llm_call, simple, "Simplify")
         IN IF llm_call = "raises" THEN Raised
            ELSE IF llm_call # "absent" /\ improved.type = "str" /\ improved.s # <<>>
            THEN Translation(improved, "llm", "llm-simplifier", timestamp)
            ELSE Translation(PyStr(simple), "rule", "rule-based-simplifier-v1", timestamp)
    ELSE IF mt_call = "raises" THEN Raised
    ELSE IF mt_call # "absent"
    THEN Translation(HookValue(mt_call, text, target_lang), "mt", "mt-service", timestamp)
    ELSE Translation(PyStr(<<>>), "none", "", timestamp)

\* translate(text, target_lang) at time timestamp
translate(text, target_lang, llm_call, mt_call, timestamp) ==
    IF Lower(target_lang) \in {"de-leicht", "de_leicht"}
    THEN LET simple == generate_easy_german(text)
             improved == HookValue(llm_call, simple, "Simplify")
         IN IF /\ llm_call \notin {"absent", "raises"}
               /\ improved.type = "str" /\ improved.s # <<>>
            THEN Translation(improved, "llm", "llm-simplifier", timestamp)
            ELSE Translation(PyStr(simple), "rule", "rule-based-simplifier-v1", timestamp)
    ELSE IF mt_call = "absent" THEN Translation(PyStr(<<>>), "none", "", timestamp)
    ELSE IF mt_call = "raises" THEN Translation(PyStr(<<>>), "mt-failed", "", timestamp)
    ELSE Translation(HookValue(mt_call, text, target_lang), "mt", "mt-service", timestamp)

NoTranslation == [method |-> ""]

InitTranslate ==
    /\ BeforeCall
    /\ \E text \in TranslateTexts, target_lang \in TargetLangs,
          llm_call \in Hooks, mt_call \in Hooks :
          call = [text |-> text, target_lang |-> target_lang, llm_call |-> llm_call,
                  mt_call |-> mt_call, res |-> NoTranslation]

Translate ==
    /\ pc = "api"
    /\ call' = [call EXCEPT !.res = translate(call.text, call.target_lang,
                                              call.llm_call, call.mt_call, clock)]
    /\ pc' = "called"
    /\ OnlyReturns

NextTranslate == Translate

SpecTranslate == InitTranslate /\ [][NextTranslate]_vars

\* -------------------------------------------------------------- SpecRobots
\* The robots.txt cache of one crawler: _get_robots_metadata called again and
\* again while the servers change their answers, and the collection of a
\* group's targets with the fetch of the first of them.

RobotsOrigins == {<<"https", "a.de", "">>, <<"https", "A.de", "443">>, <<"https", "b.de", "">>}

\* urljoin(origin, path)
At(origin, path) == Url(origin[1], origin[2], origin[3], path)

\* what session.get(robots_url) meets: a response with a status, the file
\* giving the Allow paths that apply and the Sitemap references, or a
\* requests.RequestException without a response (status 0)
RobotsAnswer(status, found) == [status |-> status, found |-> found]

RobotsAnswers(origin) ==
    {RobotsAnswer(200, Metadata(<<>>, <<>>)),
     RobotsAnswer(200, Metadata(<<At(origin, <<"/", "p">>), At(origin, <<"/", "p", "/">>)>>,
                                <<>>)),
     RobotsAnswer(200, Metadata(<<At(origin, <<"/", "q">>)>>,
                                <<At(origin, <<"/", "s1.xml">>),
                                  At(origin, <<"/", "s2.xml">>),
                                  At(origin, <<"/", "s1.xml">>)>>)),
     RobotsAnswer(404, Metadata(<<>>, <<>>)),
     RobotsAnswer(403, Metadata(<<>>, <<>>)),
     RobotsAnswer(503, Metadata(<<>>, <<>>)),
     RobotsAnswer(0, Metadata(<<>>, <<>>))}

\* the robots.txt files that can be retrieved: raise_for_status raises for a
\* status of 400 and more
Retrieved(origin, answer) ==
    IF answer.status = 200 THEN origin :> answer.found ELSE <<>>

\* what RobotFileParser.read() meets at the same server
ReadOf(answer) ==
    CASE answer.status = 200 -> "allows"
      [] answer.status = 404 -> "http_404"
      [] answer.status = 403 -> "http_403"
      [] answer.status = 503 -> "http_503"
      [] OTHER -> "urlerror"

Resolved(metadata, cache, sent) == [metadata |-> metadata, cache |-> cache, sent |-> sent]

\* _get_robots_metadata that stores only what it could retrieve
_get_robots_metadata_KeepRetrieved(origin, cache, answer) ==
    IF origin \in DOMAIN cache THEN Resolved(cache[origin], cache, <<>>)
    ELSE LET metadata == MetadataOf(Retrieved(origin, answer), origin)
         IN Resolved(metadata,
                     IF answer.status = 200 THEN cache @@ (origin :> metadata) ELSE cache,
                     <<origin>>)

\* _get_robots_metadata(origin) with self._robots_cache = cache; sent are the
\* origins whose robots.txt the call requested
_get_robots_metadata(origin, cache, answer) ==
    IF origin \in DOMAIN cache THEN Resolved(cache[origin], cache, <<>>)
    ELSE LET metadata == MetadataOf(Retrieved(origin, answer), origin)
         IN Resolved(metadata, cache @@ (origin :> metadata), <<origin>>)

NoResolution ==
    [kind |-> "", origin |-> <<>>, answer |-> RobotsAnswer(0, Metadata(<<>>, <<>>)),
     hit |-> FALSE, before |-> Metadata(<<>>, <<>>), metadata |-> Metadata(<<>>, <<>>),
     sent |-> <<>>, start_url |-> EmptyUrl, targets |-> <<>>, page |-> <<>>,
     result |-> ""]

InitRobots ==
    /\ BeforeCall
    /\ call = [cache |-> EmptyCache, ops |-> 0, last |-> NoResolution]

\* one _get_robots_metadata call, from _derive_allowed_urls or from
\* _derive_sitemap_urls, while the server would give answer
Resolve(origin, caller, answer) ==
    /\ pc = "api"
    /\ call.ops < MaxOps
    /\ LET done == _get_robots_metadata(origin, call.cache, answer)
       IN /\ call' = [cache |-> done.cache, ops |-> call.ops + 1,
                      last |-> [NoResolution EXCEPT
                                   !.kind = caller, !.origin = origin, !.answer = answer,
                                   !.hit = origin \in DOMAIN call.cache,
                                   !.before = IF origin \in DOMAIN call.cache
                                              THEN call.cache[origin]
                                              ELSE Metadata(<<>>, <<>>),
                                   !.metadata = done.metadata, !.sent = done.sent]]
          /\ log' = log \o done.sent
          /\ results' = Append(results, [origin |-> origin, metadata |-> done.metadata])
    /\ UNCHANGED <<seed_groups, config, net, pc, cause, run, clock, file, records,
                   hosts, heads, gi, targets, ti, entries, failures, recovered,
                   all_entries, pos, snap, derived, resolved, committed, prevFile>>

\* _collect_crawl_targets for a group with one start URL whose origin was not
\* resolved before and whose sitemaps cannot be fetched, then fetch_page for
\* the first target, the page being there
CollectAndFetch(start_url, answer) ==
    /\ pc = "api"
    /\ call.ops < MaxOps
    /\ RootOf(start_url) \notin DOMAIN call.cache
    /\ LET origin == RootOf(start_url)
           robots == Retrieved(origin, answer)
           done == _get_robots_metadata(origin, call.cache, answer)
           derived_allowed == _derive_allowed_urls(<<start_url>>, robots)
           walked == _derive_sitemap_urls(<<start_url>>, <<>>, robots, <<>>)
           collected == _collect_crawl_targets(SeedGroup(TRUE, "A", <<start_url>>, {}, {}),
                                               derived_allowed, walked.urls, <<>>)
           fetched == FetchPage(retry_count_default, ReadOf(answer), <<"ok">>,
                                Timing(clock, 0, <<>>, <<>>))
       IN /\ call' = [cache |-> done.cache, ops |-> call.ops + 1,
                      last |-> [NoResolution EXCEPT
                                   !.kind = "group", !.origin = origin, !.answer = answer,
                                   !.metadata = done.metadata, !.sent = done.sent,
                                   !.start_url = start_url, !.targets = collected,
                                   !.page = IF collected = <<>> THEN <<>>
                                            ELSE PageGets(fetched.t.sent),
                                   !.result = IF collected = <<>> THEN ""
                                              ELSE fetched.result]]
          /\ log' = log \o done.sent
          /\ results' = Append(results, [origin |-> origin, metadata |-> done.metadata])
    /\ UNCHANGED <<seed_groups, config, net, pc, cause, run, clock, file, records,
                   hosts, heads, gi, targets, ti, entries, failures, recovered,
                   all_entries, pos, snap, derived, resolved, committed, prevFile>>

NextRobots ==
    \/ \E origin \in RobotsOrigins, caller \in {"allowed", "sitemap"} :
          \E answer \in RobotsAnswers(origin) : Resolve(origin, caller, answer)
    \/ \E start_url \in {uP, uRootUpper, uB} :
          \E answer \in RobotsAnswers(RootOf(start_url)) : CollectAndFetch(start_url, answer)

SpecRobots == InitRobots /\ [][NextRobots]_vars

\* --------------------------------------------------------------- SpecParse
\* _parse_robots_file on a robots.txt of a few lines. A line is its field
\* name in lower case and, after the colon, its stripped value; the value of
\* an Allow or Sitemap line is a path of the origin.

MaxRobotsLines == 4

RobotsLine(field, value) == [field |-> field, value |-> value]

\* the lines of the model: User-agent lines for everybody, for this crawler,
\* for another crawler and without a value; Allow lines with a path, with a
\* trailing wildcard and without a leading slash; a Disallow line, a Sitemap
\* line, a Sitemap line without a reference, and a comment
RobotsLines ==
    {RobotsLine("user-agent", "*"),
     RobotsLine("user-agent", "SYSTEMFEHLER"),
     RobotsLine("user-agent", "Googlebot"),
     RobotsLine("user-agent", ""),
     RobotsLine("allow", <<"/", "p">>),
     RobotsLine("allow", <<"/", "q", "*">>),
     RobotsLine("allow", <<"r">>),
     RobotsLine("disallow", <<"/", "p">>),
     RobotsLine("sitemap", <<"/", "s1.xml">>),
     RobotsLine("sitemap", <<>>),
     RobotsLine("#", "")}

\* the strings s of the model for which `s in agent_token` holds, agent_token
\* being "systemfehler/0.1.0 (federal source crawler)"
InAgentToken(s) == s \in {"systemfehler", "crawler", "federal"}

\* declared == "*" or declared.lower() in agent_token
AgentApplies(declared) == declared = "*" \/ InAgentToken(Lower(declared))

\* path.split("#", 1)[0].strip().rstrip("*$")
RECURSIVE Cleaned(_)
Cleaned(path) ==
    IF path # <<>> /\ path[Len(path)] \in {"*", "$"}
    THEN Cleaned(SubSeq(path, 1, Len(path) - 1))
    ELSE path

\* the loop over robots_text.splitlines()
RECURSIVE ParseLoop(_, _, _, _, _)
ParseLoop(lines, origin, applies_to_us, allowed_paths, sitemaps) ==
    IF lines = <<>> THEN Metadata(allowed_paths, sitemaps)
    ELSE LET line == Head(lines)
             rest == Tail(lines)
         IN CASE line.field = "user-agent" ->
                     ParseLoop(rest, origin,
                               IF line.value = "" THEN FALSE ELSE AgentApplies(line.value),
                               allowed_paths, sitemaps)
              [] line.field = "sitemap" ->
                     ParseLoop(rest, origin, applies_to_us, allowed_paths,
                               IF line.value = <<>> THEN sitemaps
                               ELSE Append(sitemaps, normalize_url(At(origin, line.value))))
              [] line.field = "allow" /\ applies_to_us ->
                     LET cleaned == Cleaned(line.value)
                     IN ParseLoop(rest, origin, applies_to_us,
                                  IF cleaned = <<>> \/ cleaned[1] # "/" THEN allowed_paths
                                  ELSE Append(allowed_paths, normalize_url(At(origin, cleaned))),
                                  sitemaps)
              [] OTHER -> ParseLoop(rest, origin, applies_to_us, allowed_paths, sitemaps)

\* _parse_robots_file(robots_text, origin)
_parse_robots_file(lines, origin) == ParseLoop(lines, origin, FALSE, <<>>, <<>>)

NoParse == [allowed_paths |-> <<>>, sitemaps |-> <<>>, done |-> FALSE]

InitParse ==
    /\ BeforeCall
    /\ \E lines \in SeqsUpTo(RobotsLines, MaxRobotsLines) :
          call = [lines |-> lines, origin |-> <<"https", "A.de", "">>, res |-> NoParse]

Parse ==
    /\ pc = "api"
    /\ call' = [call EXCEPT !.res = _parse_robots_file(call.lines, call.origin)]
    /\ pc' = "called"
    /\ OnlyReturns

NextParse == Parse

SpecParse == InitParse /\ [][NextParse]_vars

\* -------------------------------------------------------------- SpecQueue
\* generate_diffs (crawlers/cli.py) and run_pilot
\* (scripts/run_translation_pilot.py) on one review queue file: with the
\* default --output ./data and the project root as working directory,
\* ./data/../moderation/review_queue.json and moderation/review_queue.json
\* are the same file.

\* an entry of candidates.json or entries.json: its id, and its url when the
\* dict has the key
DataEntry(id, has_url, url) == [id |-> id, has_url |-> has_url, url |-> url]

\* entry.get('url')
GetUrl(entry) == IF entry.has_url THEN entry.url ELSE PyNone

\* the entries a crawl returns
NewEntries ==
    {DataEntry("n1", TRUE, PyStr(<<"https://a.de/p">>)),
     DataEntry("n2", TRUE, PyStr(<<"https://a.de/q">>)),
     DataEntry("n3", FALSE, PyNone)}

\* the entries of the prior snapshot benefits/entries.json: none, one page,
\* a page held twice, an entry without url, an entry whose url is null
ExistingSnapshots ==
    {<<>>,
     <<DataEntry("e1", TRUE, PyStr(<<"https://a.de/p">>))>>,
     <<DataEntry("e1", TRUE, PyStr(<<"https://a.de/p">>)),
       DataEntry("e2", TRUE, PyStr(<<"https://a.de/p">>)),
       DataEntry("e3", FALSE, PyNone)>>,
     <<DataEntry("e4", TRUE, PyNone), DataEntry("e5", TRUE, PyStr(<<"https://a.de/r">>))>>}

\* an entry that load_entries reads: content.de and summary.de are a text,
\* empty or missing (PyStr(<<>>)), or the key `content` holds null
PilotEntry(id, content, summary) == [id |-> id, content |-> content, summary |-> summary]

PilotEntries ==
    {PilotEntry("p1", PyStr(<<"Antrag", "einreichen">>), PyStr(<<>>)),
     PilotEntry("p2", PyStr(<<>>), PyStr(<<"Hilfe", "weil", "Not", ".">>)),
     PilotEntry("p3", PyStr(<<>>), PyStr(<<>>)),
     PilotEntry("p4", PyNone, PyStr(<<"Geld", ",", "Rat", "!">>))}

\* review_queue.json: absent, {"version": ..., "queue": items}, a JSON array
\* of items, or text that json.load rejects
QueueFile(kind, items) == [kind |-> kind, items |-> items]

\* the file before the first operation: absent, unreadable, or holding one
\* item that a reviewer has approved
QueueFiles ==
    {QueueFile("absent", <<>>), QueueFile("notjson", <<>>),
     QueueFile("object", <<[id |-> "n0", status |-> "approved"]>>),
     QueueFile("array", <<[entry_id |-> "p0", status |-> "approved"]>>)}

\* existing_by_url.get(url): the dict comprehension keeps the last entry of
\* a url among the entries that have the key
existing_by_url_get(existing_entries, url) ==
    LET holding == {i \in 1..Len(existing_entries) :
                    existing_entries[i].has_url /\ existing_entries[i].url = url}
    IN IF holding = {} THEN [type |-> "none", entry |-> DataEntry("", FALSE, PyNone)]
       ELSE [type |-> "dict",
             entry |-> existing_entries[CHOOSE i \in holding : \A j \in holding : j <= i]]

\* DiffGenerator.generate_diff: the type of the diff
generate_diff(old_entry, new_entry) ==
    IF old_entry.type = "none" THEN [type |-> "create"] ELSE [type |-> "update"]

\* the queue_entry dict of generate_diffs
queue_entry(new_entry, old_entry) ==
    [id |-> new_entry.id,
     entryId |-> IF old_entry.type # "none" THEN PyStr(old_entry.entry.id) ELSE PyNone,
     domain |-> "benefits",
     action |-> IF old_entry.type # "none" THEN "update" ELSE "create",
     status |-> "pending",
     candidateData |-> new_entry,
     existingData |-> old_entry,
     diff |-> generate_diff(old_entry, new_entry)]

\* the loop over new_entries in generate_diffs
ModerationQueue(new_entries, existing_entries) ==
    [i \in 1..Len(new_entries) |->
        queue_entry(new_entries[i],
                    existing_by_url_get(existing_entries, GetUrl(new_entries[i])))]

\* generate_diffs(new_entries, existing_path, output_dir): [raised, queue_file].
\* json.load raises on text that is no JSON, and queue_data['queue'] raises
\* TypeError when the file holds an array; both happen before the file is
\* opened for writing.
generate_diffs(new_entries, existing_entries, queue_file) ==
    IF queue_file.kind \in {"notjson", "array"}
    THEN [raised |-> TRUE, queue_file |-> queue_file]
    ELSE [raised |-> FALSE,
          queue_file |-> QueueFile("object",
                                   queue_file.items
                                       \o ModerationQueue(new_entries, existing_entries))]

\* text = entry.get('content', {}).get('de') or entry.get('summary', {}).get('de') or ''
\* ([raised, text]: .get on None raises AttributeError)
PilotText(entry) ==
    IF entry.content.type = "none" THEN [raised |-> TRUE, text |-> <<>>]
    ELSE IF entry.content.s # <<>> THEN [raised |-> FALSE, text |-> entry.content.s]
    ELSE [raised |-> FALSE, text |-> entry.summary.s]

\* the entries of run_pilot that are translated
Translated(entries_) ==
    SelectSeq(entries_, LAMBDA e : ~PilotText(e).raised /\ PilotText(e).text # <<>>)

\* the moderation_queue list of run_pilot
PilotQueue(entries_, timestamp) ==
    LET done == Translated(entries_)
    IN [i \in 1..Len(done) |->
           LET text == PilotText(done[i]).text
               tg == translate(text, "de-LEICHT", "absent", "absent", timestamp)
           IN [domain |-> "benefits", entry_id |-> done[i].id,
               original_text |-> text, translation_text |-> tg.text,
               method |-> tg.method, generator |-> tg.generator,
               timestamp |-> tg.timestamp, status |-> "pending"]]

\* the end of run_pilot: what it writes to review_queue.json.  `existing` is
\* what json.loads gives when the file exists ([] when it raises); the
\* extend is in the else branch, taken when the file does not exist.
PilotWrite(queue_file, moderation_queue) ==
    CASE queue_file.kind = "absent" -> QueueFile("array", moderation_queue)
      [] queue_file.kind = "notjson" -> QueueFile("array", <<>>)
      [] OTHER -> queue_file

\* run_pilot: the meta of pilot_translated.json and the queue file
run_pilot(entries_, queue_file, timestamp) ==
    LET moderation_queue == PilotQueue(entries_, timestamp)
    IN [meta |-> [processed |-> Len(moderation_queue),
                  translated |-> Len(moderation_queue),
                  errors |-> Len(entries_) - Len(moderation_queue)],
        staged |-> moderation_queue,
        queue_file |-> PilotWrite(queue_file, moderation_queue)]

NoMeta == [processed |-> 0, translated |-> 0, errors |-> 0]

InitQueue ==
    /\ BeforeCall
    /\ \E new_entries \in SeqsUpTo(NewEntries, MaxListLen),
          existing_entries \in ExistingSnapshots,
          entries_ \in SeqsUpTo(PilotEntries, MaxListLen),
          queue_file \in QueueFiles :
          call = [new_entries |-> new_entries, existing_entries |-> existing_entries,
                  entries |-> entries_, queue_file |-> queue_file,
                  op |-> "", before |-> queue_file, raised |-> FALSE,
                  staged |-> <<>>, meta |-> NoMeta, ops |-> 0]

\* one `cli.py crawl` run up to generate_diffs
GenerateDiffs ==
    /\ pc = "api" /\ call.ops < MaxOps
    /\ LET done == generate_diffs(call.new_entries, call.existing_entries, call.queue_file)
       IN call' = [call EXCEPT !.op = "generate_diffs", !.before = call.queue_file,
                               !.raised = done.raised,
                               !.queue_file = done.queue_file,
                               !.staged = IF done.raised THEN <<>>
                                          ELSE ModerationQueue(call.new_entries,
                                                               call.existing_entries),
                               !.meta = NoMeta, !.ops = @ + 1]
    /\ UNCHANGED pc
    /\ OnlyReturns

\* one run of run_translation_pilot.py
RunPilot ==
    /\ pc = "api" /\ call.ops < MaxOps
    /\ LET done == run_pilot(call.entries, call.queue_file, clock)
       IN call' = [call EXCEPT !.op = "run_pilot", !.before = call.queue_file,
                               !.raised = FALSE,
                               !.queue_file = done.queue_file,
                               !.staged = done.staged,
                               !.meta = done.meta, !.ops = @ + 1]
    /\ UNCHANGED pc
    /\ OnlyReturns

NextQueue == GenerateDiffs \/ RunPilot

SpecQueue == InitQueue /\ [][NextQueue]_vars

\* ================================================================ claims
\* the records with key (source, url), as a set of indices
Holding(recs, source, url) ==
    {i \in 1..Len(recs) : recs[i].source = source /\ recs[i].url = url}

UniqueKeys(recs) ==
    \A i, j \in 1..Len(recs) :
        (recs[i].source = recs[j].source /\ recs[i].url = recs[j].url) => i = j

\* the JSON objects of the file, in file order
FileObjects(lines) ==
    LET objs == SelectSeq(lines, LAMBDA l : l.kind = "object")
    IN [i \in 1..Len(objs) |-> objs[i].rec]

\* the URLs of a failure list
FailedUrls(fails) == {fails[i][1] : i \in 1..Len(fails)}

\* a _record_failed_urls call has just updated the ledger
JustRecorded == pc = "persist_open"

\* C1: in every state, the in-memory ledger and the ledger file hold at most
\* one record for each (source, url) pair.
C1_LedgerKeysUnique == UniqueKeys(records) /\ UniqueKeys(FileObjects(file))

\* C1 witness: a ledger of several records, one of them of a URL that failed
\* again, has been written to the file.
C1_Witness ==
    /\ Len(records) >= 2 /\ file = LinesOf(records)
    /\ \E i \in 1..Len(records) : records[i].failCount >= 2

\* C2: after a _record_failed_urls call, every URL of its failure list has
\* exactly one record; the record carries the call's timestamp and the
\* failure's reason; its failCount is 1 if the pair had no record before the
\* call and the former failCount plus 1 otherwise (so 2 for the second of two
\* consecutive failures); and every record of the ledger has failCount >= 1.
C2_FailCountAndReason ==
    /\ \A i \in 1..Len(records) : records[i].failCount >= 1
    /\ JustRecorded =>
         \A k \in 1..Len(call.failures) :
            LET url == call.failures[k][1]
                reason == call.failures[k][2]
                old == Holding(call.before, call.source, url)
                new == Holding(records, call.source, url)
            IN /\ Cardinality(new) = 1
               /\ \A a \in new :
                    /\ records[a].lastFailure = call.now
                    /\ records[a].reason = reason
                    /\ old = {} => records[a].failCount = 1
                    /\ \A b \in old :
                         records[a].failCount = call.before[b].failCount + 1

\* C2 witness: a URL that failed once fails again, with another reason and at
\* a later time, and its record now has failCount 2.
C2_Witness ==
    /\ JustRecorded
    /\ \E k \in 1..Len(call.failures) :
         \E b \in Holding(call.before, call.source, call.failures[k][1]) :
            /\ call.before[b].failCount = 1
            /\ call.before[b].reason # call.failures[k][2]
            /\ call.before[b].lastFailure < call.now
            /\ \E a \in Holding(records, call.source, call.failures[k][1]) :
                 records[a].failCount = 2

\* the _record_failed_urls call of SpecRecord has returned
Called == pc = "called"

\* how often a URL occurs in a failure list
Occurrences(fails, url) == Cardinality({k \in 1..Len(fails) : fails[k][1] = url})

\* C3 as stated: after a call, the ledger holds no record (source, u) for a
\* recovered u that had a record, whether or not u is also in the failure list.
C3_RecoveryWins ==
    Called =>
        \A u \in Range(call.recovered) :
            Holding(call.before, call.source, u) # {}
                => Holding(records, call.source, u) = {}

\* C3: after a call, a recovered u that had a record has none if u is not in
\* the call's failure list; if u is also in the failure list it has exactly
\* one record, a new one: its timestamp is the call's and its failCount is the
\* number of times u occurs in the failure list, whatever the old failCount.
C3_FailureWins ==
    Called =>
        \A u \in Range(call.recovered) :
            Holding(call.before, call.source, u) # {} =>
                IF u \notin FailedUrls(call.failures)
                THEN Holding(records, call.source, u) = {}
                ELSE /\ Cardinality(Holding(records, call.source, u)) = 1
                     /\ \A a \in Holding(records, call.source, u) :
                          /\ records[a].lastFailure = call.now
                          /\ records[a].failCount = Occurrences(call.failures, u)

\* C3 witness: a URL with a record of failCount 2 is in both lists of a call,
\* and after the call its record has failCount 1.
C3_Witness ==
    /\ Called
    /\ \E u \in Range(call.recovered) \cap FailedUrls(call.failures) :
         /\ \E b \in Holding(call.before, call.source, u) :
              call.before[b].failCount = 2
         /\ \E a \in Holding(records, call.source, u) :
              records[a].failCount = 1

\* the call leaves the record alone: its key is not (source, u) for a u of
\* the failure list or of the recovered list
Untouched(r) ==
    ~(r.source = call.source
      /\ r.url \in FailedUrls(call.failures) \cup Range(call.recovered))

\* C4: after a _record_failed_urls call the ledger holds no record
\* (source, u) for any recovered u, and the records whose key is not
\* (source, u) for a failed or recovered u are the same as before the call,
\* in the same relative order.
C4_RecoveredRemovedOthersKept ==
    JustRecorded =>
        /\ \A u \in Range(call.recovered) : Holding(records, call.source, u) = {}
        /\ SelectSeq(records, Untouched) = SelectSeq(call.before, Untouched)

\* C4 witness: a call removes the record of a recovered URL while the ledger
\* holds a record of the same URL for another source, which it keeps.
C4_Witness ==
    /\ JustRecorded
    /\ \E u \in Range(call.recovered) :
         /\ Holding(call.before, call.source, u) # {}
         /\ \E i \in 1..Len(records) :
              records[i].source # call.source /\ records[i].url = u

\* the group at gi, the key its outcome is recorded under, and the ledger
\* records of that key when the group started
Group == seed_groups[gi]
RecordKey == NameOr(Group, "unknown")
OwnAtStart == {i \in 1..Len(snap) : snap[i].source = RecordKey}

\* _collect_crawl_targets has returned for the group at gi
Collected == pc \in {"targets", "persist_open", "persist_write", "return"}

\* the record snap[i] is gone, or its failCount is one more than it was
RemovedOrIncremented(i) ==
    \A a \in Holding(records, snap[i].source, snap[i].url) :
        records[a].failCount = snap[i].failCount + 1

C6_CrashKeepsEarlierGroups ==
    /\ pc = "return" => LoadLines(file) = records
    /\ pc = "dead" /\ cause = "crash" => LoadLines(file) \in {committed, records}

\* C7 as stated: while _persist_failed_url_records runs, and after a crash
\* inside it, the file holds the complete previous ledger or the complete new
\* ledger.
C7_PersistAtomic ==
    /\ pc \in {"persist_open", "persist_write"}
         => file \in {prevFile, LinesOf(records)}
    /\ pc = "dead" /\ cause = "crash"
         => file \in {LinesOf(committed), LinesOf(records)}

\* the records of the well-formed lines of a file, in file order
WellFormed(lines) ==
    LET good == SelectSeq(lines, LAMBDA l : l.kind = "object"
                                            /\ l.rec.url # EmptyUrl
                                            /\ l.rec.source # "")
    IN [i \in 1..Len(good) |-> good[i].rec]

\* C8 as stated: for any lines of the file the load does not abort, and the
\* ledger of the constructed crawler holds the records of all well-formed
\* lines, in file order.
C8_LoadSkipsCorruptLines ==
    run = 1 => cause # "load" /\ records = WellFormed(file)

RECURSIVE Flatten(_)
\* the entries of the groups that returned, in group order
Flatten(rs) ==
    IF rs = <<>> THEN <<>> ELSE Head(rs).entries \o Flatten(Tail(rs))

\* C9: no error raised while a seed group is processed leaves crawl(); when
\* crawl() returns, every configured group has been processed, in order, and
\* the result is the concatenation, in group order, of the entries of the
\* groups that did not raise.
C9_CrawlSurvivesGroups ==
    /\ cause # "raised"
    /\ pc \in {"crawl", "targets", "persist_open", "persist_write", "return"}
         => Len(results) = gi - 1 /\ all_entries = Flatten(results)
    /\ pc = "done"
         => /\ Len(results) = Len(seed_groups)
            /\ all_entries = Flatten(results)
            /\ \A g \in 1..Len(results) :
                 results[g].status = "raised" => results[g].entries = <<>>

\* C9 witness: crawl() has returned; the second of three groups raised and the
\* first and the third contributed entries.
C9_Witness ==
    /\ pc = "done" /\ Len(results) = 3
    /\ results[2].status = "raised"
    /\ results[1].entries # <<>> /\ results[3].entries # <<>>
    /\ all_entries = results[1].entries \o results[3].entries

\* the stages of _crawl_url, in order
StageOrder == <<"validate", "dns", "head", "fetch", "extract">>

\* the number of the stage that reports the reason
StageOfReason(tag) ==
    CASE tag = "invalid_url" -> 1
      [] tag \in {"invalid_host", "dns_error", "network_error", "host_unreachable"} -> 2
      [] tag \in {"head_error", "head_status", "head_failed"} -> 3
      [] tag = "fetch_failed" -> 4
      [] tag = "content_empty" -> 5
      [] OTHER -> 0

\* the host of a target as _crawl_url passes it to _is_host_reachable
HostOf(url) == Lower(urlparse(url).host)

\* C10: for every target processed, the stages entered are a prefix of the
\* fixed order; a target yields an entry only after all five; a failed target
\* stops at the stage whose reason it reports, and that reason is what the
\* group records for it; and a target whose host's resolution failed
\* (getaddrinfo raised) stops at the DNS stage, with a dns_error reason when
\* the error was socket.gaierror.
C10_StagesInOrder ==
    /\ \A k \in 1..Len(log) :
         LET e == log[k]
             n == Len(e.stages)
         IN /\ n \in 1..5 /\ e.stages = SubSeq(StageOrder, 1, n)
            /\ e.ok => n = 5 /\ e.reason = <<>>
            /\ ~e.ok => e.reason # <<>> /\ StageOfReason(e.reason[1]) = n
            /\ (n >= 2 /\ HostOf(e.url) \in DOMAIN resolved
                   /\ resolved[HostOf(e.url)] # "ok")
                 => /\ n = 2
                    /\ resolved[HostOf(e.url)] = "gaierror"
                         => e.reason[1] \in {"dns_error", "host_unreachable"}
    /\ pc = "targets" =>
         LET failed == SelectSeq(log, LAMBDA e : ~e.ok)
         IN failures = [k \in 1..Len(failed) |-> <<failed[k].url, failed[k].reason>>]

\* C10 witness: in one group a target stopped at validation, a later target
\* stopped at the DNS stage because getaddrinfo raised socket.gaierror, and
\* the next target of the same host stopped there too.
C10_Witness ==
    /\ pc = "targets" /\ Len(log) = 3
    /\ log[1].stages = <<"validate">> /\ log[1].reason = <<"invalid_url">>
    /\ resolved[HostOf(log[2].url)] = "gaierror"
    /\ log[2].stages = <<"validate", "dns">> /\ log[2].reason = <<"dns_error", "-2">>
    /\ HostOf(log[3].url) = HostOf(log[2].url) /\ log[3].url # log[2].url
    /\ log[3].stages = <<"validate", "dns">> /\ log[3].reason = log[2].reason

\* the configuration is in error: the registry file is missing or lists no
\* seed group, or a source name is requested that no seed group has
ConfigError(c) ==
    \/ ~c.registry.exists
    \/ c.registry.seed_groups = <<>>
    \/ /\ c.source_name # ""
       /\ \A i \in 1..Len(c.registry.seed_groups) :
            LET g == c.registry.seed_groups[i]
            IN ~g.has_name \/ Lower(g.name) # Lower(c.source_name)

\* C11: construction fails with a configuration error exactly when the
\* configuration is in error; the process then ends without having issued a
\* network operation or started a seed group.
C11_ConfigErrorBeforeNetwork ==
    /\ pc # "boot" /\ cause # "load" => (cause = "config" <=> ConfigError(config))
    /\ ConfigError(config) /\ pc # "boot" =>
         /\ pc = "dead"
         /\ net = NoNet /\ hosts = EmptyCache /\ heads = EmptyCache
         /\ results = <<>> /\ all_entries = <<>> /\ log = <<>> /\ targets = <<>>

\* C11 witness: a registry with seed groups, asked for a source it does not
\* have, has made the construction fail.
C11_Witness ==
    /\ cause = "config" /\ pc = "dead"
    /\ config.registry.seed_groups # <<>> /\ config.source_name = "X"

\* C12: in one process, getaddrinfo has been called exactly once for every
\* host that has a cached verdict and for no other host, session.head exactly
\* once for every origin root that has one and for no other; and every target
\* processed, in whichever group, went the way of the cached verdict: with a
\* negative verdict it stopped at that stage with the cached reason.
C12_OncePerHostAndOrigin ==
    /\ DOMAIN net.dns = DOMAIN hosts /\ \A h \in DOMAIN net.dns : net.dns[h] = 1
    /\ DOMAIN net.head = DOMAIN heads /\ \A r \in DOMAIN net.head : net.head[r] = 1
    /\ \A k \in 1..Len(log) :
         LET e == log[k]
             n == Len(e.stages)
         IN /\ n >= 2 /\ HostOf(e.url) # "" =>
                 /\ HostOf(e.url) \in DOMAIN hosts
                 /\ IF hosts[HostOf(e.url)].ok THEN n >= 3
                    ELSE n = 2 /\ e.reason = hosts[HostOf(e.url)].reason
            /\ n >= 3 =>
                 /\ RootOf(e.url) \in DOMAIN heads
                 /\ IF heads[RootOf(e.url)].ok THEN n >= 4
                    ELSE n = 3 /\ e.reason = heads[RootOf(e.url)].reason

\* C12 witness: the HEAD request to an origin failed at transport level in the
\* first group; a target of that origin in the second group has been given
\* the same reason, and still one HEAD request and one getaddrinfo call have
\* been made for it.
C12_Witness ==
    /\ gi = 2 /\ pc = "targets"
    /\ results # <<>> /\ results[1].status = "returned"
    /\ \E k \in 1..Len(log) :
         /\ RootOf(log[k].url) \in DOMAIN heads
         /\ heads[RootOf(log[k].url)] = Verdict(FALSE, <<"head_error", "ConnectionError">>)
         /\ log[k].reason = <<"head_error", "ConnectionError">>
         /\ net.head[RootOf(log[k].url)] = 1
         /\ net.dns[HostOf(log[k].url)] = 1
         /\ \E u \in Range(seed_groups[1].start_urls) : RootOf(u) = RootOf(log[k].url)

\* C13: when _probe_url_head has sent the HEAD request (the URL is an http(s)
\* URL with a host and its origin root had no cached verdict), the verdict is
\* reachable exactly when a response came with a status below 500 (405
\* included); a status of 500 or more gives unreachable with reason
\* head_status:<code>, a transport error unreachable with reason
\* head_error:<class>; the call returns in every case.
C13_HeadClassification ==
    Called /\ net.head # <<>> =>
        /\ call.verdict.ok <=> (call.head.kind = "status" /\ call.head.status < 500)
        /\ call.head.kind = "status" /\ call.head.status >= 500
             => call.verdict.reason = <<"head_status", StatusStr(call.head.status)>>
        /\ call.head.kind = "error"
             => call.verdict.reason = <<"head_error", call.head.cls>>
        /\ call.verdict.ok => call.verdict.reason = <<>>
        /\ heads[RootOf(call.url)] = call.verdict

\* C13 witness: an origin answered HEAD with 405 and has been classified as
\* reachable.
C13_Witness ==
    /\ Called /\ net.head # <<>>
    /\ call.head.kind = "status" /\ call.head.status = 405
    /\ call.verdict = Verdict(TRUE, <<>>)

C15_SitemapDepthBounded ==
    Called => \A k \in 1..Len(call.fetched) : call.fetched[k].depth <= MAX_SITEMAP_DEPTH

\* C15 witness: an index at depth 2 lists a further index, which exists; the
\* index at depth 2 was requested and the one below it was not.
C15_Witness ==
    /\ Called
    /\ \E k \in 1..Len(call.fetched) :
         call.fetched[k].url = SM("i2.xml") /\ call.fetched[k].depth = 2
    /\ SM("i3.xml") \in DOMAIN config.web
    /\ \A k \in 1..Len(call.fetched) : call.fetched[k].url # SM("i3.xml")

\* the sitemap requests of the derivation, each URL in normalized form
FetchedNormalized ==
    [k \in 1..Len(call.fetched) |-> normalize_url(call.fetched[k].url)]

\* C16: when the derivation of a seed group has returned it has requested no
\* sitemap URL twice, URLs being compared in normalized form; the requests
\* of a derivation are therefore no more than the sitemap URLs of the graph.
C16_EachSitemapRequestedOnce ==
    Called =>
        \A j, k \in 1..Len(call.fetched) :
            j # k => FetchedNormalized[j] # FetchedNormalized[k]

\* C16 witness: the index named by robots.txt lists itself and is listed by
\* the index it names, robots.txt names it a second time in another spelling,
\* and the derivation returned having requested it and the nested index.
C16_Witness ==
    /\ Called
    /\ LET top == DocAt(config.web, SM("s0.xml"))
           below == DocAt(config.web, SMUpper("i1.xml"))
       IN /\ SM("s0.xml") \in Range(top.locs)
          /\ SM("s0.xml") \in Range(below.locs)
          /\ SMUpper("i1.xml") \in Range(below.locs)
    /\ RootOf(uRoot) \in DOMAIN config.robots
    /\ SMUpper("s0.xml") \in Range(config.robots[RootOf(uRoot)].sitemaps)
    /\ SM("s0.xml") \in Range(FetchedNormalized)
    /\ SM("i1.xml") \in Range(FetchedNormalized)

\* the four inputs of the collection in priority order, and their concatenation
\* with every URL normalized
RetryUrls == _load_failed_urls(records, "A")

Concatenation == config.start_urls \o call.allowed \o call.sitemap \o RetryUrls

NormalizedConcatenation ==
    [i \in 1..Len(Concatenation) |-> normalize_url(Concatenation[i])]

\* index of the first occurrence of u in s, 0 when there is none
FirstAt(s, u) ==
    LET at == {i \in 1..Len(s) : s[i] = u}
    IN IF at = {} THEN 0 ELSE CHOOSE i \in at : \A j \in at : i <= j

\* a candidate whose path is empty or "/"
BareOrigin(u) == RootPath(u) /\ u.scheme # "" /\ ~NoNetloc(u)

\* a URL with another path and the origin of u was derived from robots.txt or
\* from a sitemap
SpecificDerived(u) ==
    \E d \in Range(call.allowed \o call.sitemap) :
        ~RootPath(d) /\ d.scheme = u.scheme /\ d.host = u.host /\ d.port = u.port

\* an excluded keyword occurs in u, in whatever letter case
HasKeyword(u) ==
    \E keyword \in EXCLUDED_LINK_KEYWORDS : \E part \in PartsOf(u) :
        Occurs(keyword, Lower(part))

\* a candidate that one of the two filters of the collection refuses: a bare
\* origin for which a more specific URL was derived, or a URL with a keyword
Filtered(u) == (BareOrigin(u) /\ SpecificDerived(u)) \/ HasKeyword(u)

\* C17: the target list holds normalized URLs of the concatenation [start_urls,
\* derived allowed, derived sitemap, retry], none of them twice, in the order
\* of their first occurrence in the concatenation; what is missing from it is
\* what the specificity or the keyword filter refuses.
C17_TargetsAreDedupedConcatenation ==
    Called =>
        LET normalized == NormalizedConcatenation
            first == [i \in 1..Len(targets) |-> FirstAt(normalized, targets[i])]
            kept == Range(targets)
        IN /\ \A i, j \in 1..Len(targets) : i # j => targets[i] # targets[j]
           /\ \A i \in 1..Len(targets) : first[i] > 0
           /\ \A i \in 1..(Len(targets) - 1) : first[i] < first[i + 1]
           /\ \A u \in Range(normalized) : u \in kept \/ Filtered(u)

\* C17 witness: a URL occurs in three of the four inputs in two spellings and
\* once in the list, after a start URL and before a sitemap URL.
C17_Witness ==
    /\ Called
    /\ uPs \in Range(config.start_urls) /\ uP \in Range(config.start_urls)
    /\ uP \in Range(call.allowed)
    /\ uP \in Range(RetryUrls)
    /\ Len(targets) >= 2
    /\ targets[1] = uP
    /\ uB2 \in Range(call.sitemap) /\ uB2 \in Range(targets)

\* C18 as stated: a bare-origin candidate is missing from the target list
\* exactly when a URL with a non-root path of its origin was derived.
C18_BareOriginDroppedIffSpecific ==
    Called =>
        \A u \in Range(NormalizedConcatenation) :
            BareOrigin(u) => (u \notin Range(targets) <=> SpecificDerived(u))

\* C18: a bare-origin candidate is missing from the target list exactly when
\* a URL with a non-root path of its origin was derived or the candidate
\* holds an excluded keyword.
C18_BareOriginDroppedIffSpecificOrKeyword ==
    Called =>
        \A u \in Range(NormalizedConcatenation) :
            BareOrigin(u) =>
                (u \notin Range(targets) <=> (SpecificDerived(u) \/ HasKeyword(u)))

\* C18 witness: https://a.de/ and https://b.de/ are candidates, /p was derived
\* for a.de and nothing for b.de; /p and https://b.de/ are targets and
\* https://a.de/ is not.
C18_Witness ==
    /\ Called
    /\ uRoot \in Range(NormalizedConcatenation)
    /\ uBRoot \in Range(NormalizedConcatenation)
    /\ uP \in Range(call.allowed)
    /\ ~SpecificDerived(uBRoot)
    /\ uP \in Range(targets) /\ uBRoot \in Range(targets)
    /\ uRoot \notin Range(targets)

\* C19: no URL of a collected target list holds an excluded keyword, in
\* whatever letter case and whichever input the URL came from.
C19_NoTargetWithKeyword ==
    Called => \A i \in 1..Len(targets) : ~HasKeyword(targets[i])

\* C19 witness: each of the four inputs held a URL with a keyword, in the
\* start URLs and the sitemap spelled with capitals, and the collection
\* returned targets.
C19_Witness ==
    /\ Called
    /\ uKwUpper \in Range(config.start_urls)
    /\ RootOf(uRoot) \in DOMAIN config.robots
    /\ uKw \in Range(config.robots[RootOf(uRoot)].allowed_paths)
    /\ uBKw \in Range(DocAt(config.web, SM("s1.xml")).locs)
    /\ uBKw \in Range(RetryUrls)
    /\ targets # <<>>

\* C20: normalizing a normalized URL changes nothing.
C20_NormalizeIdempotent ==
    Called => call.twice = call.once

\* a URL that normalize_url leaves as it is
IsNormalized(u) == normalize_url(u) = u

\* C21: every URL of a ledger record and every URL of a target list is in
\* normalized form, and so no two records of a source hold URLs with the
\* same normalized form.
C21_LedgerAndTargetsNormalized ==
    /\ \A i \in 1..Len(records) : IsNormalized(records[i].url)
    /\ \A i \in 1..Len(targets) : IsNormalized(targets[i])
    /\ \A i, j \in 1..Len(records) :
          (/\ records[i].source = records[j].source
           /\ normalize_url(records[i].url) = normalize_url(records[j].url)) => i = j

\* the values of key k in a query, in their order
ValuesOf(q, k) ==
    LET mine == SelectSeq(q, LAMBDA kv : kv[1] = k)
    IN [i \in 1..Len(mine) |-> mine[i][2]]

\* position of a key in the order of sorted()
KeyRank(k) == CHOOSE i \in 1..Len(SortedKeys) : SortedKeys[i] = k

\* C22: the normalized URL has no tracking parameter, has every other
\* parameter with all of its values, has its parameters sorted by key, and
\* has the scheme of the URL.
C22_OnlyTrackingParamsRemoved ==
    Called =>
        LET before == call.url.query
            after == call.once.query
        IN /\ \A i \in 1..Len(after) : after[i][1] \notin tracking_params
           /\ \A i \in 1..Len(before) :
                 before[i][1] \notin tracking_params =>
                     ValuesOf(after, before[i][1]) = ValuesOf(before, before[i][1])
           /\ \A i \in 1..(Len(after) - 1) : KeyRank(after[i][1]) <= KeyRank(after[i + 1][1])
           /\ Lower(call.once.scheme) = Lower(call.url.scheme)

\* C23: two crawls of URLs with the same normalized form give entries with
\* the same id, whatever the seed groups, the pages and the times.
C23_IdOfNormalizedUrlOnly ==
    (Called /\ call.ea # NoDict /\ call.eb # NoDict) =>
        /\ normalize_url(call.a.url) = normalize_url(call.b.url) => call.ea.id = call.eb.id
        /\ call.ea.id = uuid5(normalize_url(call.a.url))

\* C23 witness: two spellings of one URL were crawled for two seed groups at
\* two times and gave two pages; both entries exist.
C23_Witness ==
    /\ Called
    /\ call.a.url = uRoot /\ call.b.url = uRootUpper
    /\ call.a.seed_name # call.b.seed_name
    /\ call.a.html # call.b.html
    /\ call.a.now # call.b.now
    /\ call.ea # NoDict /\ call.eb # NoDict
    /\ call.ea.content # call.eb.content

\* C24: the provenance of every entry holds source, crawler, crawledAt,
\* crawlId and checksum.
C24_ProvenanceComplete ==
    (Called /\ call.ea # NoDict) =>
        {"source", "crawler", "crawledAt", "crawlId", "checksum"}
            \subseteq DOMAIN call.ea.provenance

\* a fetch_page call has returned
Fetched == call.fetch.read # ""

\* the world of a target whose host resolves and whose probe succeeds, and
\* whose fetch_page call ended with result
AfterFetch(result) ==
    [dns |-> [kind |-> "ok", errno |-> ""],
     head |-> [kind |-> "status", status |-> 200, cls |-> ""],
     html |-> IF result = "html" THEN "page" ELSE "none", exc |-> ""]

\* C25: fetch_page sends at most retry_count GETs; after failed attempt k
\* (counted from 0) it sleeps 2^k seconds before the next attempt and it does
\* not sleep after the last one; it returns the body of the first attempt that
\* succeeds; when every attempt fails with a request error it returns None
\* without raising, and _crawl_url then answers fetch_failed.
C25_RetriesBounded ==
    Fetched =>
        LET f == call.fetch
            gets == PageGets(f.sent)
            n == Len(gets)
        IN /\ n <= f.retry_count
           /\ Len(f.slept) = IF n = 0 THEN 0 ELSE n - 1
           /\ \A k \in 1..Len(f.slept) :
                 /\ f.answers[k] = "request_error"
                 /\ f.slept[k] = 2 ^ (k - 1)
                 /\ gets[k + 1].at - gets[k].at >= 2 ^ (k - 1)
           /\ f.result = "html" <=> (n >= 1 /\ f.answers[n] = "ok")
           /\ f.result = "html" => \A k \in 1..(n - 1) : f.answers[k] = "request_error"
           /\ (/\ check_robots_txt(f.read)
               /\ Len(f.answers) = f.retry_count
               /\ \A k \in 1..f.retry_count : f.answers[k] = "request_error")
                 => f.result = "none" /\ n = f.retry_count
           /\ f.result = "none" =>
                 LET o == _crawl_url(uP, "A", EmptyCache, EmptyCache, AfterFetch(f.result))
                 IN o.reason = <<"fetch_failed">> /\ ~o.raised /\ o.entry = NoEntry

\* C25 witness: robots.txt allowed the URL, all three attempts failed with a
\* request error, fetch_page slept 1 and 2 seconds and returned None.
C25_Witness ==
    /\ Fetched
    /\ call.fetch.retry_count = 3
    /\ check_robots_txt(call.fetch.read)
    /\ call.fetch.answers = <<"request_error", "request_error", "request_error">>
    /\ Len(PageGets(call.fetch.sent)) = 3
    /\ call.fetch.slept = <<1, 2>>
    /\ call.fetch.result = "none"

\* C26: any two consecutive outbound requests of the crawler, of whatever
\* kind, are at least rate_limit_delay seconds apart.
C26_EveryRequestRateLimited ==
    \A i \in 1..(Len(log) - 1) : log[i + 1].at - log[i].at >= rate_limit_delay

\* robots.txt gave no rules: it is absent, refused, failing or unreadable
Unread == RobotsReads \ {"allows", "disallows"}

\* C27: fetch_page sends no GET for a URL that robots.txt disallows and
\* returns None, and it does send one when robots.txt could not be read.
C27_RobotsCompliance ==
    Fetched =>
        LET f == call.fetch
            n == Len(PageGets(f.sent))
        IN /\ f.read = "disallows" => (n = 0 /\ f.result = "none")
           /\ (f.read \in Unread /\ f.retry_count >= 1) => n >= 1

IsLeicht(target_lang) == Lower(target_lang) \in {"de-leicht", "de_leicht"}

\* C28: translate returns a record of text, method, generator and timestamp
\* whatever the hooks do. For Easy German the method is llm exactly when the
\* llm hook returned a non-empty string, and otherwise rule with the text of
\* generate_easy_german; for another language it is mt with what the mt hook
\* returned, mt-failed with empty text when the hook raised, and none with
\* empty text when there is no mt hook.
C28_TranslateTotal ==
    Called =>
        LET r == call.res
            out == HookValue(call.llm_call, generate_easy_german(call.text), "Simplify")
            improved == /\ call.llm_call \notin {"absent", "raises"}
                        /\ out.type = "str" /\ out.s # <<>>
        IN /\ DOMAIN r = {"text", "method", "generator", "timestamp"}
           /\ IsLeicht(call.target_lang) =>
                 /\ r.method = "llm" <=> improved
                 /\ improved => r.text = out
                 /\ ~improved =>
                       /\ r.method = "rule"
                       /\ r.text = PyStr(generate_easy_german(call.text))
           /\ ~IsLeicht(call.target_lang) =>
                 /\ call.mt_call = "absent" => r.method = "none" /\ r.text = PyStr(<<>>)
                 /\ call.mt_call = "raises" =>
                       r.method = "mt-failed" /\ r.text = PyStr(<<>>)
                 /\ call.mt_call \notin {"absent", "raises"} =>
                       /\ r.method = "mt"
                       /\ r.text = HookValue(call.mt_call, call.text, call.target_lang)

\* C28 witness: for Easy German the llm hook raised and the rule-based text,
\* which differs from the input, was returned.
C28_Witness ==
    /\ Called
    /\ call.target_lang = "de-LEICHT"
    /\ call.llm_call = "raises"
    /\ call.text = <<"Antrag", "einreichen">>
    /\ call.res.method = "rule"
    /\ call.res.text = PyStr(<<"Antrag", "abgeben", ".">>)

Asked == call.last.kind # "" /\ ~call.last.hit

\* C30: when the robots.txt request fails, the metadata has no allowed path
\* and the start URL is still a target and is requested; the sitemap list is
\* exactly origin/sitemap.xml when no Sitemap reference was obtained, and
\* holds exactly the declared references otherwise.
C30_RobotsFailureNotFatal ==
    Asked =>
        LET l == call.last
            fallback == normalize_url(At(l.origin, <<"/", "sitemap.xml">>))
            declared == IF l.answer.status = 200 THEN l.answer.found.sitemaps ELSE <<>>
        IN /\ l.answer.status # 200 => l.metadata.allowed_paths = <<>>
           /\ declared = <<>> => l.metadata.sitemaps = <<fallback>>
           /\ declared # <<>> =>
                 /\ fallback \notin Range(l.metadata.sitemaps)
                 /\ Range(l.metadata.sitemaps) = {normalize_url(u) : u \in Range(declared)}
           /\ (l.kind = "group" /\ l.answer.status # 200) =>
                 /\ l.targets = <<normalize_url(l.start_url)>>
                 /\ Len(l.page) >= 1
                 /\ l.result = "html"

\* the User-agent lines that head the block of line i: the nearest run of
\* User-agent lines above it, comments inside the run aside
RECURSIVE AgentsAbove(_, _, _)
AgentsAbove(lines, i, started) ==
    IF i = 0 THEN {}
    ELSE IF lines[i].field = "user-agent"
         THEN {lines[i].value} \cup AgentsAbove(lines, i - 1, TRUE)
    ELSE IF started THEN (IF lines[i].field = "#" THEN AgentsAbove(lines, i - 1, TRUE) ELSE {})
    ELSE AgentsAbove(lines, i - 1, FALSE)

BlockApplies(lines, i) ==
    \E declared \in AgentsAbove(lines, i, FALSE) : declared # "" /\ AgentApplies(declared)

\* C31: after parsing, the allowed paths are exactly the paths (with a leading
\* slash, wildcard marks stripped) of the Allow lines whose block has a
\* User-agent line with `*` or a value that matches the agent token, and the
\* sitemaps are the references of all Sitemap lines, in file order.
C31_AllowOfApplicableBlocks ==
    Called =>
        LET lines == call.lines
            idx == [i \in 1..Len(lines) |-> i]
            allows == SelectSeq(idx, LAMBDA i :
                          /\ lines[i].field = "allow"
                          /\ Cleaned(lines[i].value) # <<>>
                          /\ Cleaned(lines[i].value)[1] = "/"
                          /\ BlockApplies(lines, i))
            maps == SelectSeq(idx, LAMBDA i :
                          lines[i].field = "sitemap" /\ lines[i].value # <<>>)
        IN /\ call.res.allowed_paths =
                 [k \in 1..Len(allows) |->
                     normalize_url(At(call.origin, Cleaned(lines[allows[k]].value)))]
           /\ call.res.sitemaps =
                 [k \in 1..Len(maps) |-> normalize_url(At(call.origin, lines[maps[k]].value))]

\* the sitemap documents of the scenario that were requested and could not
\* be fetched or parsed
FailedNodes ==
    {k \in 1..Len(call.fetched) :
        DocAt(config.web, call.fetched[k].url).kind \in {"error", "badxml"}}

\* C32: a requested sitemap that cannot be fetched or parsed gives no URL to
\* the result, and the call returns; when such a node is the child of an
\* index that was requested above the depth limit, every other child of that
\* index is requested too and the URLs of its urlset children are in the
\* result, the result staying below the cap.
C32_FailedNodeSkipped ==
    (Called /\ Len(call.sitemap) < MAX_SITEMAP_URLS) =>
        /\ \A k \in FailedNodes :
              \A u \in Range(DocAt(config.web, call.fetched[k].url).locs) :
                  normalize_url(u) \notin Range(call.sitemap)
        /\ \A p \in 1..Len(call.fetched) :
              LET parent == DocAt(config.web, call.fetched[p].url)
              IN (/\ parent.kind = "index"
                  /\ call.fetched[p].depth < MAX_SITEMAP_DEPTH
                  /\ \E k \in FailedNodes : call.fetched[k].url \in Range(parent.locs))
                    => \A c \in Range(parent.locs) :
                          /\ normalize_url(c) \in Range(FetchedNormalized)
                          /\ DocAt(config.web, c).kind = "urlset" =>
                                \A u \in Range(DocAt(config.web, c).locs) :
                                    normalize_url(u) \in Range(call.sitemap)

\* C32 witness: the first sitemap of robots.txt could not be fetched and the
\* second child of the index was malformed; the first and the third child
\* were requested and their URLs are in the result.
C32_Witness ==
    /\ Called
    /\ SM("c2.xml") \in DOMAIN config.web
    /\ config.web[SM("f0.xml")].kind = "error"
    /\ config.web[SM("c1.xml")].kind = "urlset"
    /\ config.web[SM("c2.xml")].kind = "badxml"
    /\ config.web[SM("c3.xml")].kind = "urlset"
    /\ [k \in 1..Len(call.fetched) |-> call.fetched[k].url]
          = <<SM("f0.xml"), SM("s0.xml"), SM("c1.xml"), SM("c2.xml"), SM("c3.xml")>>
    /\ call.sitemap = Pages("a.de", 1000, 2) \o Pages("a.de", 3000, 2)

\* "." + domain for the domains of the model
Dotted(domain) == IF domain = "a.de" THEN ".a.de" ELSE <<".", domain>>

\* the host of the URL is one of the allowed domains or a subdomain of one
InDomains(url, allowed_domains) ==
    \E i \in 1..Len(allowed_domains) :
        LET domain == Lower(allowed_domains[i])
            host == Lower(urlparse(url).host)
        IN host = domain \/ Dotted(domain) \in SuffixesOf(host)

\* C33: with allowed_domains configured, every URL that the sitemap
\* derivation returns and every nested sitemap it requests is on an allowed
\* domain or on a subdomain of one.
C33_SitemapTargetsInAllowedDomains ==
    (Called /\ config.allowed_domains # <<>>) =>
        /\ \A u \in Range(call.sitemap) : InDomains(u, config.allowed_domains)
        /\ \A k \in 1..Len(call.fetched) :
              call.fetched[k].depth >= 1
                  => InDomains(call.fetched[k].url, config.allowed_domains)

\* C34: while a group is processed the targets before ti have each been
\* crawled once, in order, and each gave either an entry, with its URL in
\* recovered, or a failure with a reason; recovered and failed URLs are
\* disjoint and entries and failures add up to the targets crawled; nothing
\* is recorded before the last target, and what is recorded then are these
\* two lists.
C34_OneOutcomePerTarget ==
    pc \in {"targets", "persist_open", "persist_write", "return"} =>
        /\ [k \in 1..Len(log) |-> log[k].url] = SubSeq(targets, 1, ti - 1)
        /\ \A i, j \in 1..Len(targets) : targets[i] = targets[j] => i = j
        /\ Len(entries) + Len(failures) = ti - 1
        /\ Len(recovered) = Len(entries)
        /\ \A k \in 1..Len(entries) : entries[k].url = normalize_url(recovered[k])
        /\ \A k \in 1..Len(log) :
              IF log[k].ok THEN log[k].url \in Range(recovered) /\ log[k].url \notin FailedUrls(failures)
              ELSE log[k].url \in FailedUrls(failures) /\ log[k].url \notin Range(recovered)
        /\ \A k \in 1..Len(failures) : failures[k][2] # <<>>
        /\ Range(recovered) \cap FailedUrls(failures) = {}
        /\ pc = "targets" => call = NoCall
        /\ pc # "targets" =>
              /\ ti = Len(targets) + 1
              /\ call # NoCall => (call.failures = failures /\ call.recovered = recovered)
              /\ call = NoCall => (failures = <<>> /\ recovered = <<>>)

\* C34 witness: a group of two targets has been processed, the first gave an
\* entry and the second a failure, and both lists have been recorded once.
C34_Witness ==
    /\ pc = "return"
    /\ Len(targets) = 2
    /\ Len(entries) = 1 /\ recovered = <<targets[1]>>
    /\ Len(failures) = 1 /\ failures[1][1] = targets[2]
    /\ call.failures = failures /\ call.recovered = recovered


\* the step in which crawl() catches the error of the group at gi
GroupRaised ==
    /\ Len(results') = Len(results) + 1
    /\ results'[Len(results')].status = "raised"

\* C35: a seed group whose processing raises has no effect on the result and
\* on the ledger: while the group's targets are crawled the ledger in memory
\* is the one the group started with and the file is not written, and the
\* step that catches the error leaves all_entries, the ledger in memory and
\* the file as they are, whatever entries, failures and recovered URLs the
\* group had collected.
C35_RaisingGroupHasNoEffect ==
    [][/\ (pc = "crawl" /\ pc' = "targets") => (snap' = records /\ file' = file)
       /\ (pc = "targets" /\ pc' = "targets") => (records' = records /\ file' = file)
       /\ pc = "targets" => (records = snap /\ records = committed)
       /\ GroupRaised
            => /\ pc \in {"crawl", "targets"}
               /\ all_entries' = all_entries
               /\ records' = records /\ file' = file
               /\ committed' = committed
               /\ results'[Len(results')].entries = <<>>]_vars

\* C35 witness: the first group of a run raised after one of its targets had
\* failed and another had given an entry; nothing was returned or recorded.
C35_Witness ==
    /\ pc = "crawl" /\ Len(results) = 1
    /\ results[1].status = "raised"
    /\ results[1].lost.entries # <<>>
    /\ results[1].lost.failures # <<>>
    /\ results[1].lost.recovered # <<>>
    /\ all_entries = <<>> /\ records = <<>> /\ file = <<>>


\* the candidates of the group of the scenario: combined, normalized
Candidates ==
    LET combined == Dedupe(config.start_urls \o derived
                               \o _load_failed_urls(records, "A"))
    IN {normalize_url(combined[i]) : i \in 1..Len(combined)}

\* the candidates that the specificity filter drops
DroppedOrigins == {u \in Candidates : DroppedAsBareOrigin(u, SpecificOrigins(derived))}

\* C36: when the specificity filter drops a bare-origin URL, the target list
\* holds a URL of the same origin with a path that is not the root.
C36_DroppedOriginKeepsTarget ==
    pc = "called" =>
        \A u \in DroppedOrigins :
            \E k \in 1..Len(targets) :
                /\ OriginOf(urlparse(targets[k])) = OriginOf(urlparse(u))
                /\ ~RootPath(urlparse(targets[k]))


\* C37: the entries that crawl() returns have pairwise distinct ids and
\* pairwise distinct urls.
C37_ReturnedEntriesDistinct ==
    pc = "done" =>
        \A i, j \in 1..Len(all_entries) :
            i # j => /\ all_entries[i].id # all_entries[j].id
                     /\ all_entries[i].url # all_entries[j].url


\* C38: when a group's targets have been collected, every URL that the ledger
\* held under the source key the group records its failures with has been
\* loaded as a retry URL of the group.
C38_RecordedKeyIsLoadedKey ==
    pc = "targets" =>
        LET seed_group == seed_groups[gi]
            retry_targets == _load_failed_urls(snap, NameOr(seed_group, ""))
        IN \A i \in 1..Len(snap) :
              snap[i].source = NameOr(seed_group, "unknown")
                  => \E k \in 1..Len(retry_targets) : retry_targets[k] = snap[i].url

\* the entries of the prior snapshot that hold the url of new_entry
SameUrl(new_entry) ==
    {i \in 1..Len(call.existing_entries) :
        /\ call.existing_entries[i].has_url
        /\ call.existing_entries[i].url = GetUrl(new_entry)}

\* C39: after generate_diffs the queue file holds the items it held before,
\* unchanged and in order, followed by one item per new entry, in order;
\* each has status 'pending' and the entry as candidate, action 'update' and
\* the id of a snapshot entry with the same url as entryId when the snapshot
\* holds such an entry, and action 'create' with entryId null when not.
C39_OneItemPerNewEntry ==
    call.op = "generate_diffs" =>
        /\ ~call.raised
        /\ Len(call.staged) = Len(call.new_entries)
        /\ call.queue_file.kind = "object"
        /\ call.queue_file.items = call.before.items \o call.staged
        /\ \A i \in 1..Len(call.staged) :
              LET item == call.staged[i]
                  new_entry == call.new_entries[i]
              IN /\ item.status = "pending"
                 /\ item.candidateData = new_entry
                 /\ item.action \in {"update", "create"}
                 /\ item.action = "update" <=> SameUrl(new_entry) # {}
                 /\ item.action = "update"
                      => \E k \in SameUrl(new_entry) :
                            item.entryId = PyStr(call.existing_entries[k].id)
                 /\ item.action = "create" => item.entryId = PyNone

\* C40: after run_pilot the queue file holds the items it held before
\* followed by one 'pending' item per entry translated in this run.
C40_PilotItemsAppended ==
    call.op = "run_pilot" =>
        /\ Len(call.staged) = Len(Translated(call.entries))
        /\ \A i \in 1..Len(call.staged) :
              /\ call.staged[i].status = "pending"
              /\ call.staged[i].entry_id = Translated(call.entries)[i].id
        /\ call.queue_file.items = call.before.items \o call.staged

====
